---- MODULE Spec2Model ----
(***************************************************************************)
(* Policy drift detection engine.                                          *)
(*                                                                         *)
(* The engine is a library of pure functions (src/src/intent_parser.py,    *)
(* src/src/drift_detector.py and their copies in                           *)
(* src/backend/drift/detector.py).  Each function is an operator computed  *)
(* the way the Python computes it, an exception being one of the outcomes. *)
(* Spec applies the functions to inputs drawn from bounded sets: a state   *)
(* is one call, its arguments and what it returned or raised.              *)
(***************************************************************************)
EXTENDS Integers, Sequences, FiniteSets, TLC

VARIABLES op, args, ret

vars == <<op, args, ret>>

(***************************************************************************)
(* Bounds of the input sets.                                               *)
(***************************************************************************)
\* calculate_severity is applied to actual and threshold in -MaxSev..MaxSev
MaxSev == 20
\* check_metric_constraint is applied to values and thresholds in -MaxChk..MaxChk
MaxChk == 3
\* fields of records given to the classifier and the detector are in 0..MaxField
MaxField == 3

(***************************************************************************)
(* Python values: a number, None (a missing key read with dict.get) or a   *)
(* string (a CSV cell that float() refused, or a text column).             *)
(***************************************************************************)
Num(n) == [tag |-> "num", n |-> n, s |-> ""]
None == [tag |-> "none", n |-> 0, s |-> ""]
Str(s) == [tag |-> "str", n |-> 0, s |-> s]

\* Python 3 orders two numbers; number against str or None raises TypeError.
Comparable(a, b) == a.tag = "num" /\ b.tag = "num"

\* Python == / != between values of the kinds above never raises.
PyEq(a, b) == a.tag = b.tag /\ a.n = b.n /\ a.s = b.s

\* "min" in s, for s a str, is a substring test.
StrContains(s, key) ==
    \/ key = "min" /\ s \in {"minority"}
    \/ key = "max" /\ s \in {"maximum"}

\* a {min?, max?} mapping, a number or a string as criterion condition
Range(hasMin, min, hasMax, max) ==
    [tag |-> "dict", hasMin |-> hasMin, min |-> min, hasMax |-> hasMax, max |-> max,
     n |-> 0, s |-> ""]
ScalarNum(n) ==
    [tag |-> "num", hasMin |-> FALSE, min |-> 0, hasMax |-> FALSE, max |-> 0,
     n |-> n, s |-> ""]
ScalarStr(s) ==
    [tag |-> "str", hasMin |-> FALSE, min |-> 0, hasMax |-> FALSE, max |-> 0,
     n |-> 0, s |-> s]

\* the scalar of a scalar condition as a Python value
CondValue(cond) == IF cond.tag = "num" THEN Num(cond.n) ELSE Str(cond.s)

(***************************************************************************)
(* matches_target_group, command-line engine.  criteria is the dict in     *)
(* iteration order, a sequence of [field, cond].  The result is "True",    *)
(* "False" or the exception raised.                                        *)
(***************************************************************************)
\* matches_target_group with the min bound taken as exclusive
RECURSIVE MatchFrom_exclusive(_, _, _)
MatchFrom_exclusive(district_data, criteria, i) ==
    IF i > Len(criteria) THEN "True"
    ELSE LET conditions == criteria[i].cond
             value == district_data[criteria[i].field]
             inMin == IF conditions.tag = "dict" THEN conditions.hasMin
                      ELSE StrContains(conditions.s, "min")
             inMax == IF conditions.tag = "dict" THEN conditions.hasMax
                      ELSE StrContains(conditions.s, "max")
         IN  IF value.tag = "none" THEN "False"
             ELSE IF conditions.tag = "num" THEN "TypeError"
             ELSE IF inMin /\ conditions.tag = "str" THEN "TypeError"
             ELSE IF inMin /\ ~Comparable(value, Num(conditions.min)) THEN "TypeError"
             ELSE IF inMin /\ value.n <= conditions.min THEN "False"
             ELSE IF inMax /\ conditions.tag = "str" THEN "TypeError"
             ELSE IF inMax /\ ~Comparable(value, Num(conditions.max)) THEN "TypeError"
             ELSE IF inMax /\ value.n > conditions.max THEN "False"
             ELSE MatchFrom_exclusive(district_data, criteria, i + 1)

RECURSIVE MatchFrom(_, _, _)
MatchFrom(district_data, criteria, i) ==
    IF i > Len(criteria) THEN "True"
    ELSE LET conditions == criteria[i].cond
             value == district_data[criteria[i].field]
             \* "min" in conditions: key test on a dict, substring test on a
             \* str, TypeError on a number
             inMin == IF conditions.tag = "dict" THEN conditions.hasMin
                      ELSE StrContains(conditions.s, "min")
             inMax == IF conditions.tag = "dict" THEN conditions.hasMax
                      ELSE StrContains(conditions.s, "max")
         IN  IF value.tag = "none" THEN "False"
             ELSE IF conditions.tag = "num" THEN "TypeError"
             ELSE IF inMin /\ conditions.tag = "str" THEN "TypeError"
             ELSE IF inMin /\ ~Comparable(value, Num(conditions.min)) THEN "TypeError"
             ELSE IF inMin /\ value.n < conditions.min THEN "False"
             ELSE IF inMax /\ conditions.tag = "str" THEN "TypeError"
             ELSE IF inMax /\ ~Comparable(value, Num(conditions.max)) THEN "TypeError"
             ELSE IF inMax /\ value.n > conditions.max THEN "False"
             ELSE MatchFrom(district_data, criteria, i + 1)

matches_target_group(district_data, target_group) ==
    MatchFrom(district_data, target_group.criteria, 1)

(***************************************************************************)
(* matches_target_group, backend engine: isinstance dispatch on the        *)
(* condition; a str condition takes neither branch.                        *)
(***************************************************************************)
\* the backend's matches_target_group with the max bound taken as exclusive
RECURSIVE BackendMatchFrom_exclusive(_, _, _)
BackendMatchFrom_exclusive(district_data, criteria, i) ==
    IF i > Len(criteria) THEN "True"
    ELSE LET conditions == criteria[i].cond
             value == district_data[criteria[i].field]
         IN  IF value.tag = "none" THEN "False"
             ELSE IF conditions.tag = "dict"
             THEN IF conditions.hasMin /\ ~Comparable(value, Num(conditions.min))
                  THEN "TypeError"
                  ELSE IF conditions.hasMin /\ value.n < conditions.min THEN "False"
                  ELSE IF conditions.hasMax /\ ~Comparable(value, Num(conditions.max))
                  THEN "TypeError"
                  ELSE IF conditions.hasMax /\ value.n >= conditions.max THEN "False"
                  ELSE BackendMatchFrom_exclusive(district_data, criteria, i + 1)
             ELSE IF conditions.tag = "num" /\ ~PyEq(value, Num(conditions.n))
             THEN "False"
             ELSE BackendMatchFrom_exclusive(district_data, criteria, i + 1)

RECURSIVE BackendMatchFrom(_, _, _)
BackendMatchFrom(district_data, criteria, i) ==
    IF i > Len(criteria) THEN "True"
    ELSE LET conditions == criteria[i].cond
             value == district_data[criteria[i].field]
         IN  IF value.tag = "none" THEN "False"
             ELSE IF conditions.tag = "dict"
             THEN IF conditions.hasMin /\ ~Comparable(value, Num(conditions.min))
                  THEN "TypeError"
                  ELSE IF conditions.hasMin /\ value.n < conditions.min THEN "False"
                  ELSE IF conditions.hasMax /\ ~Comparable(value, Num(conditions.max))
                  THEN "TypeError"
                  ELSE IF conditions.hasMax /\ value.n > conditions.max THEN "False"
                  ELSE BackendMatchFrom(district_data, criteria, i + 1)
             ELSE IF conditions.tag = "num" /\ ~PyEq(value, Num(conditions.n))
             THEN "False"
             ELSE BackendMatchFrom(district_data, criteria, i + 1)

backend_matches_target_group(district_data, target_group) ==
    BackendMatchFrom(district_data, target_group.criteria, 1)

\* the engine's matcher: impl is "cli" or "backend"
Matches(impl, district_data, target_group) ==
    IF impl = "cli" THEN matches_target_group(district_data, target_group)
    ELSE backend_matches_target_group(district_data, target_group)

(***************************************************************************)
(* classify_district: first group that matches, else "unclassified"; an    *)
(* exception of the matcher propagates.                                    *)
(***************************************************************************)
\* classify_district letting the last matching group win
RECURSIVE ClassifyFrom_last(_, _, _, _)
ClassifyFrom_last(impl, district_data, target_groups, i) ==
    IF i > Len(target_groups) THEN "unclassified"
    ELSE LET m == Matches(impl, district_data, target_groups[i])
             rest == ClassifyFrom_last(impl, district_data, target_groups, i + 1)
         IN  IF m = "True"
             THEN IF rest = "unclassified" THEN target_groups[i].name ELSE rest
             ELSE IF m = "False" THEN rest
             ELSE m

RECURSIVE ClassifyFrom(_, _, _, _)
ClassifyFrom(impl, district_data, target_groups, i) ==
    IF i > Len(target_groups) THEN "unclassified"
    ELSE LET m == Matches(impl, district_data, target_groups[i])
         IN  IF m = "True" THEN target_groups[i].name
             ELSE IF m = "False"
             THEN ClassifyFrom(impl, district_data, target_groups, i + 1)
             ELSE m

classify_district(impl, district_data, target_groups) ==
    ClassifyFrom(impl, district_data, target_groups, 1)

(***************************************************************************)
(* check_metric_constraint.  A constraint is                               *)
(* [type, metric, threshold, applies_to], threshold a number or None       *)
(* (constraint.get("threshold") of a constraint without the key);          *)
(* target_metrics maps a metric to [present, hasMin, min, hasMax, max].    *)
(* The result is [exc, violated, threshold].                               *)
(***************************************************************************)
CheckOk(violated, threshold) ==
    [exc |-> "none", violated |-> violated, threshold |-> threshold]
CheckRaise(exc) == [exc |-> exc, violated |-> FALSE, threshold |-> 0]

\* check_metric_constraint counting a value equal to the minimum_coverage
\* threshold as a violation
check_metric_constraint_inclusive(value, constraint, target_metrics) ==
    LET constraint_type == constraint.type
        metric_name == constraint.metric
        threshold == constraint.threshold
        metric_def == target_metrics[metric_name]
    IN  IF constraint_type = "minimum_coverage"
        THEN IF Comparable(value, threshold)
             THEN CheckOk(value.n <= threshold.n, threshold.n)
             ELSE CheckRaise("TypeError")
        ELSE IF constraint_type = "temporal_consistency"
        THEN IF Comparable(value, threshold)
             THEN CheckOk(value.n > threshold.n, threshold.n)
             ELSE CheckRaise("TypeError")
        ELSE IF constraint_type = "resource_allocation"
        THEN IF Comparable(value, threshold)
             THEN CheckOk(value.n < threshold.n, threshold.n)
             ELSE CheckRaise("TypeError")
        ELSE IF metric_def.present
        THEN IF metric_def.hasMin /\ value.tag # "num" THEN CheckRaise("TypeError")
             ELSE IF metric_def.hasMin /\ value.n < metric_def.min
             THEN CheckOk(TRUE, metric_def.min)
             ELSE IF metric_def.hasMax /\ value.tag # "num" THEN CheckRaise("TypeError")
             ELSE IF metric_def.hasMax /\ value.n > metric_def.max
             THEN CheckOk(TRUE, metric_def.max)
             ELSE CheckOk(FALSE, 0)
        ELSE CheckOk(FALSE, 0)

\* check_metric_constraint testing the max of the band before its min
check_metric_constraint_maxfirst(value, constraint, target_metrics) ==
    LET constraint_type == constraint.type
        metric_name == constraint.metric
        threshold == constraint.threshold
        metric_def == target_metrics[metric_name]
    IN  IF constraint_type = "minimum_coverage"
        THEN IF Comparable(value, threshold)
             THEN CheckOk(value.n < threshold.n, threshold.n)
             ELSE CheckRaise("TypeError")
        ELSE IF constraint_type = "temporal_consistency"
        THEN IF Comparable(value, threshold)
             THEN CheckOk(value.n > threshold.n, threshold.n)
             ELSE CheckRaise("TypeError")
        ELSE IF constraint_type = "resource_allocation"
        THEN IF Comparable(value, threshold)
             THEN CheckOk(value.n < threshold.n, threshold.n)
             ELSE CheckRaise("TypeError")
        ELSE IF metric_def.present
        THEN IF metric_def.hasMax /\ value.tag # "num" THEN CheckRaise("TypeError")
             ELSE IF metric_def.hasMax /\ value.n > metric_def.max
             THEN CheckOk(TRUE, metric_def.max)
             ELSE IF metric_def.hasMin /\ value.tag # "num" THEN CheckRaise("TypeError")
             ELSE IF metric_def.hasMin /\ value.n < metric_def.min
             THEN CheckOk(TRUE, metric_def.min)
             ELSE CheckOk(FALSE, 0)
        ELSE CheckOk(FALSE, 0)

check_metric_constraint(value, constraint, target_metrics) ==
    LET constraint_type == constraint.type
        metric_name == constraint.metric
        threshold == constraint.threshold
        metric_def == target_metrics[metric_name]
    IN  IF constraint_type = "minimum_coverage"
        THEN IF Comparable(value, threshold)
             THEN CheckOk(value.n < threshold.n, threshold.n)
             ELSE CheckRaise("TypeError")
        ELSE IF constraint_type = "temporal_consistency"
        THEN IF Comparable(value, threshold)
             THEN CheckOk(value.n > threshold.n, threshold.n)
             ELSE CheckRaise("TypeError")
        ELSE IF constraint_type = "resource_allocation"
        THEN IF Comparable(value, threshold)
             THEN CheckOk(value.n < threshold.n, threshold.n)
             ELSE CheckRaise("TypeError")
        ELSE IF metric_def.present
        THEN IF metric_def.hasMin /\ value.tag # "num" THEN CheckRaise("TypeError")
             ELSE IF metric_def.hasMin /\ value.n < metric_def.min
             THEN CheckOk(TRUE, metric_def.min)
             ELSE IF metric_def.hasMax /\ value.tag # "num" THEN CheckRaise("TypeError")
             ELSE IF metric_def.hasMax /\ value.n > metric_def.max
             THEN CheckOk(TRUE, metric_def.max)
             ELSE CheckOk(FALSE, 0)
        ELSE CheckOk(FALSE, 0)

(***************************************************************************)
(* calculate_severity.  The deviation is the quotient num / den * 100,     *)
(* kept exact as the pair [num, den] (den # 0); Python divides floats,     *)
(* so threshold 0 raises ZeroDivisionError.                                *)
(***************************************************************************)
Deviation(actual, threshold, constraint_type) ==
    IF constraint_type \in {"minimum_coverage", "resource_allocation"}
    THEN [num |-> (threshold - actual) * 100, den |-> threshold]
    ELSE [num |-> (actual - threshold) * 100, den |-> threshold]

\* deviation >= bound in place of deviation > bound
DevGT_ge(deviation, bound) ==
    IF deviation.den > 0 THEN deviation.num >= bound * deviation.den
    ELSE deviation.num <= bound * deviation.den

\* deviation > bound, for den # 0
DevGT(deviation, bound) ==
    IF deviation.den > 0 THEN deviation.num > bound * deviation.den
    ELSE deviation.num < bound * deviation.den

\* calculate_severity with the labels of the two upper bands exchanged
calculate_severity_swapped(actual, threshold, constraint_type) ==
    IF threshold = 0 THEN "ZeroDivisionError"
    ELSE LET deviation == Deviation(actual, threshold, constraint_type)
         IN  IF DevGT(deviation, 30) THEN "medium"
             ELSE IF DevGT(deviation, 15) THEN "high"
             ELSE "low"

calculate_severity(actual, threshold, constraint_type) ==
    IF threshold = 0 THEN "ZeroDivisionError"
    ELSE LET deviation == Deviation(actual, threshold, constraint_type)
         IN  IF DevGT(deviation, 30) THEN "high"
             ELSE IF DevGT(deviation, 15) THEN "medium"
             ELSE "low"

(***************************************************************************)
(* detect_metric_drift.  policy_intent is                                  *)
(* [target_groups, constraints, target_metrics].  The result is            *)
(* [exc, drifts, district_group, constraints]: the list returned (or the   *)
(* exception raised), the cohort and the constraints the loop ran over.    *)
(***************************************************************************)
DriftResult(drift_type, district_id, district_name, constraint, actual_value, expected_threshold, month, severity) ==
    [drift_type |-> drift_type, district_id |-> district_id,
     district_name |-> district_name, constraint |-> constraint,
     actual_value |-> actual_value, expected_threshold |-> expected_threshold,
     month |-> month, severity |-> severity]

\* get_constraints_for_group forgetting the constraints that apply to "all"
get_constraints_for_group_noall(constraints, group_name) ==
    LET Applies(c) == c.applies_to = group_name
    IN  SelectSeq(constraints, Applies)

\* PolicyIntent.get_constraints_for_group
get_constraints_for_group(constraints, group_name) ==
    LET Applies(c) == c.applies_to = group_name \/ c.applies_to = "all"
    IN  SelectSeq(constraints, Applies)

\* the loop of detect_metric_drift without the skip of temporal_consistency
RECURSIVE MetricLoop_noskip(_, _, _, _, _, _)
MetricLoop_noskip(district_data, constraints, target_metrics, month, i, drifts) ==
    IF i > Len(constraints) THEN [exc |-> "none", drifts |-> drifts]
    ELSE LET constraint == constraints[i]
             actual_value == district_data[constraint.metric]
             chk == check_metric_constraint(actual_value, constraint, target_metrics)
             severity == calculate_severity(actual_value.n, chk.threshold,
                                            constraint.type)
             next(d) == MetricLoop_noskip(district_data, constraints, target_metrics,
                                          month, i + 1, d)
         IN  IF actual_value.tag = "none" THEN next(drifts)
             ELSE IF chk.exc # "none" THEN [exc |-> chk.exc, drifts |-> <<>>]
             ELSE IF ~chk.violated THEN next(drifts)
             ELSE IF severity = "ZeroDivisionError"
             THEN [exc |-> severity, drifts |-> <<>>]
             ELSE next(Append(drifts,
                    DriftResult("metric", district_data.district_id,
                                district_data.district_name, constraint,
                                actual_value.n, chk.threshold, month, severity)))

\* the loop of detect_metric_drift without the skip of a missing value
RECURSIVE MetricLoop_nonull(_, _, _, _, _, _)
MetricLoop_nonull(district_data, constraints, target_metrics, month, i, drifts) ==
    IF i > Len(constraints) THEN [exc |-> "none", drifts |-> drifts]
    ELSE LET constraint == constraints[i]
             actual_value == district_data[constraint.metric]
             chk == check_metric_constraint(actual_value, constraint, target_metrics)
             severity == calculate_severity(actual_value.n, chk.threshold,
                                            constraint.type)
             next(d) == MetricLoop_nonull(district_data, constraints, target_metrics,
                                          month, i + 1, d)
         IN  IF constraint.type = "temporal_consistency" THEN next(drifts)
             ELSE IF chk.exc # "none" THEN [exc |-> chk.exc, drifts |-> <<>>]
             ELSE IF ~chk.violated THEN next(drifts)
             ELSE IF severity = "ZeroDivisionError"
             THEN [exc |-> severity, drifts |-> <<>>]
             ELSE next(Append(drifts,
                    DriftResult("metric", district_data.district_id,
                                district_data.district_name, constraint,
                                actual_value.n, chk.threshold, month, severity)))

\* the loop of detect_metric_drift scoring every finding against the
\* constraint's own threshold, the band of target_metrics included
RECURSIVE MetricLoop_own_threshold(_, _, _, _, _, _)
MetricLoop_own_threshold(district_data, constraints, target_metrics, month, i, drifts) ==
    IF i > Len(constraints) THEN [exc |-> "none", drifts |-> drifts]
    ELSE LET constraint == constraints[i]
             actual_value == district_data[constraint.metric]
             chk == check_metric_constraint(actual_value, constraint, target_metrics)
             severity == calculate_severity(actual_value.n,
                                            constraint.threshold.n,
                                            constraint.type)
             next(d) == MetricLoop_own_threshold(district_data, constraints, target_metrics,
                                   month, i + 1, d)
         IN  IF constraint.type = "temporal_consistency" THEN next(drifts)
             ELSE IF actual_value.tag = "none" THEN next(drifts)
             ELSE IF chk.exc # "none" THEN [exc |-> chk.exc, drifts |-> <<>>]
             ELSE IF ~chk.violated THEN next(drifts)
             ELSE IF severity = "ZeroDivisionError"
             THEN [exc |-> severity, drifts |-> <<>>]
             ELSE next(Append(drifts,
                    DriftResult("metric", district_data.district_id,
                                district_data.district_name, constraint,
                                actual_value.n, chk.threshold, month, severity)))

\* the loop of detect_metric_drift putting each finding before the earlier
\* ones
RECURSIVE MetricLoop_prepend(_, _, _, _, _, _)
MetricLoop_prepend(district_data, constraints, target_metrics, month, i, drifts) ==
    IF i > Len(constraints) THEN [exc |-> "none", drifts |-> drifts]
    ELSE LET constraint == constraints[i]
             actual_value == district_data[constraint.metric]
             chk == check_metric_constraint(actual_value, constraint, target_metrics)
             severity == calculate_severity(actual_value.n, chk.threshold,
                                            constraint.type)
             next(d) == MetricLoop_prepend(district_data, constraints,
                                           target_metrics, month, i + 1, d)
         IN  IF constraint.type = "temporal_consistency" THEN next(drifts)
             ELSE IF actual_value.tag = "none" THEN next(drifts)
             ELSE IF chk.exc # "none" THEN [exc |-> chk.exc, drifts |-> <<>>]
             ELSE IF ~chk.violated THEN next(drifts)
             ELSE IF severity = "ZeroDivisionError"
             THEN [exc |-> severity, drifts |-> <<>>]
             ELSE next(<<DriftResult("metric", district_data.district_id,
                                     district_data.district_name, constraint,
                                     actual_value.n, chk.threshold, month,
                                     severity)>> \o drifts)

\* the loop over the applicable constraints, from the i-th on, drifts so far
RECURSIVE MetricLoop(_, _, _, _, _, _)
MetricLoop(district_data, constraints, target_metrics, month, i, drifts) ==
    IF i > Len(constraints) THEN [exc |-> "none", drifts |-> drifts]
    ELSE LET constraint == constraints[i]
             actual_value == district_data[constraint.metric]
             chk == check_metric_constraint(actual_value, constraint, target_metrics)
             severity == calculate_severity(actual_value.n, chk.threshold,
                                            constraint.type)
             next(d) == MetricLoop(district_data, constraints, target_metrics,
                                   month, i + 1, d)
         IN  IF constraint.type = "temporal_consistency" THEN next(drifts)
             ELSE IF actual_value.tag = "none" THEN next(drifts)
             ELSE IF chk.exc # "none" THEN [exc |-> chk.exc, drifts |-> <<>>]
             ELSE IF ~chk.violated THEN next(drifts)
             ELSE IF severity = "ZeroDivisionError"
             THEN [exc |-> severity, drifts |-> <<>>]
             ELSE next(Append(drifts,
                    DriftResult("metric", district_data.district_id,
                                district_data.district_name, constraint,
                                actual_value.n, chk.threshold, month, severity)))

detect_metric_drift(impl, district_data, policy_intent, month) ==
    LET district_group ==
            classify_district(impl, district_data, policy_intent.target_groups)
        constraints ==
            get_constraints_for_group(policy_intent.constraints, district_group)
        run == MetricLoop(district_data, constraints, policy_intent.target_metrics,
                          month, 1, <<>>)
    IN  IF district_group = "TypeError"
        THEN [exc |-> "TypeError", drifts |-> <<>>,
              district_group |-> district_group, constraints |-> <<>>]
        ELSE [exc |-> run.exc, drifts |-> run.drifts,
              district_group |-> district_group, constraints |-> constraints]

(***************************************************************************)
(* detect_temporal_drift.  district_history is the list of one region's    *)
(* records; the result is [exc, drifts].  The outer loop is over the       *)
(* temporal_consistency constraints (ci), the inner one over the records   *)
(* (ri).                                                                   *)
(***************************************************************************)
\* the loops of detect_temporal_drift nested the other way round: the
\* records outside, the constraints inside
RECURSIVE TemporalLoop_record_major(_, _, _, _, _)
TemporalLoop_record_major(district_history, temporal_constraints, ci, ri, drifts) ==
    IF ri > Len(district_history) THEN [exc |-> "none", drifts |-> drifts]
    ELSE IF ci > Len(temporal_constraints)
    THEN TemporalLoop_record_major(district_history, temporal_constraints,
                                   1, ri + 1, drifts)
    ELSE LET constraint == temporal_constraints[ci]
             threshold == constraint.threshold
             record == district_history[ri]
             value == record[constraint.metric]
             severity == calculate_severity(value.n, threshold.n,
                                            "temporal_consistency")
             next(d) == TemporalLoop_record_major(district_history,
                                                  temporal_constraints,
                                                  ci + 1, ri, d)
         IN  IF value.tag = "none" THEN next(drifts)
             ELSE IF ~Comparable(value, threshold)
             THEN [exc |-> "TypeError", drifts |-> <<>>]
             ELSE IF ~(value.n > threshold.n) THEN next(drifts)
             ELSE IF severity = "ZeroDivisionError"
             THEN [exc |-> severity, drifts |-> <<>>]
             ELSE next(Append(drifts,
                    DriftResult("temporal", record.district_id,
                                record.district_name, constraint, value.n,
                                threshold.n, record.month, severity)))

RECURSIVE TemporalLoop(_, _, _, _, _)
TemporalLoop(district_history, temporal_constraints, ci, ri, drifts) ==
    IF ci > Len(temporal_constraints) THEN [exc |-> "none", drifts |-> drifts]
    ELSE IF ri > Len(district_history)
    THEN TemporalLoop(district_history, temporal_constraints, ci + 1, 1, drifts)
    ELSE LET constraint == temporal_constraints[ci]
             threshold == constraint.threshold
             record == district_history[ri]
             value == record[constraint.metric]
             severity == calculate_severity(value.n, threshold.n,
                                            "temporal_consistency")
             next(d) == TemporalLoop(district_history, temporal_constraints,
                                     ci, ri + 1, d)
         IN  IF value.tag = "none" THEN next(drifts)
             ELSE IF ~Comparable(value, threshold)
             THEN [exc |-> "TypeError", drifts |-> <<>>]
             ELSE IF ~(value.n > threshold.n) THEN next(drifts)
             ELSE IF severity = "ZeroDivisionError"
             THEN [exc |-> severity, drifts |-> <<>>]
             ELSE next(Append(drifts,
                    DriftResult("temporal", record.district_id,
                                record.district_name, constraint, value.n,
                                threshold.n, record.month, severity)))

\* detect_temporal_drift returning early for an empty history only
detect_temporal_drift_empty(district_history, policy_intent) ==
    LET IsTemporal(c) == c.type = "temporal_consistency"
        temporal_constraints == SelectSeq(policy_intent.constraints, IsTemporal)
    IN  IF Len(district_history) < 1 THEN [exc |-> "none", drifts |-> <<>>]
        ELSE TemporalLoop(district_history, temporal_constraints, 1, 1, <<>>)

\* detect_temporal_drift taking the constraints that apply to "all" only
detect_temporal_drift_scoped(district_history, policy_intent) ==
    LET IsTemporal(c) == c.type = "temporal_consistency" /\ c.applies_to = "all"
        temporal_constraints == SelectSeq(policy_intent.constraints, IsTemporal)
    IN  IF Len(district_history) < 2 THEN [exc |-> "none", drifts |-> <<>>]
        ELSE TemporalLoop(district_history, temporal_constraints, 1, 1, <<>>)

detect_temporal_drift(district_history, policy_intent) ==
    LET IsTemporal(c) == c.type = "temporal_consistency"
        temporal_constraints == SelectSeq(policy_intent.constraints, IsTemporal)
    IN  IF Len(district_history) < 2 THEN [exc |-> "none", drifts |-> <<>>]
        ELSE TemporalLoop(district_history, temporal_constraints, 1, 1, <<>>)

(***************************************************************************)
(* detect_all_drift.  district_groups is a dict filled in input order: its *)
(* keys are the district ids in first-seen order, its values the records   *)
(* of each district in input order.  The result is [exc, drifts].          *)
(***************************************************************************)
\* the keys of district_groups
RECURSIVE GroupKeys(_, _, _)
GroupKeys(implementation_data, i, keys) ==
    IF i > Len(implementation_data) THEN keys
    ELSE LET district_id == implementation_data[i].district_id
         IN  IF \E k \in 1 .. Len(keys) : keys[k] = district_id
             THEN GroupKeys(implementation_data, i + 1, keys)
             ELSE GroupKeys(implementation_data, i + 1, Append(keys, district_id))

\* district_groups[district_id]
GroupHistory(implementation_data, district_id) ==
    LET InDistrict(record) == record.district_id = district_id
    IN  SelectSeq(implementation_data, InDistrict)

\* the loop over the records of one district keeping the findings of the
\* last record only
RECURSIVE RecordLoop_replace(_, _, _, _, _)
RecordLoop_replace(impl, history, policy_intent, i, all_drifts) ==
    IF i > Len(history) THEN [exc |-> "none", drifts |-> all_drifts]
    ELSE LET record == history[i]
             metric_drifts == detect_metric_drift(impl, record, policy_intent,
                                                  record.month)
         IN  IF metric_drifts.exc # "none"
             THEN [exc |-> metric_drifts.exc, drifts |-> <<>>]
             ELSE RecordLoop_replace(impl, history, policy_intent, i + 1,
                                     metric_drifts.drifts)

\* the loop over the records of one district, all_drifts so far
RECURSIVE RecordLoop(_, _, _, _, _)
RecordLoop(impl, history, policy_intent, i, all_drifts) ==
    IF i > Len(history) THEN [exc |-> "none", drifts |-> all_drifts]
    ELSE LET record == history[i]
             metric_drifts == detect_metric_drift(impl, record, policy_intent,
                                                  record.month)
         IN  IF metric_drifts.exc # "none"
             THEN [exc |-> metric_drifts.exc, drifts |-> <<>>]
             ELSE RecordLoop(impl, history, policy_intent, i + 1,
                             all_drifts \o metric_drifts.drifts)

\* the loop over the districts with the temporal findings of a district
\* put before its metric findings
RECURSIVE DistrictLoop_temporal_first(_, _, _, _, _, _)
DistrictLoop_temporal_first(impl, implementation_data, policy_intent, keys, k, all_drifts) ==
    IF k > Len(keys) THEN [exc |-> "none", drifts |-> all_drifts]
    ELSE LET history == GroupHistory(implementation_data, keys[k])
             temporal_drifts == detect_temporal_drift(history, policy_intent)
             metric == RecordLoop(impl, history, policy_intent, 1,
                                  all_drifts \o temporal_drifts.drifts)
         IN  IF metric.exc # "none" THEN [exc |-> metric.exc, drifts |-> <<>>]
             ELSE IF temporal_drifts.exc # "none"
             THEN [exc |-> temporal_drifts.exc, drifts |-> <<>>]
             ELSE DistrictLoop_temporal_first(impl, implementation_data,
                                              policy_intent, keys, k + 1,
                                              metric.drifts)

\* the loop over the districts, all_drifts so far
RECURSIVE DistrictLoop(_, _, _, _, _, _)
DistrictLoop(impl, implementation_data, policy_intent, keys, k, all_drifts) ==
    IF k > Len(keys) THEN [exc |-> "none", drifts |-> all_drifts]
    ELSE LET history == GroupHistory(implementation_data, keys[k])
             metric == RecordLoop(impl, history, policy_intent, 1, all_drifts)
             temporal_drifts == detect_temporal_drift(history, policy_intent)
         IN  IF metric.exc # "none" THEN [exc |-> metric.exc, drifts |-> <<>>]
             ELSE IF temporal_drifts.exc # "none"
             THEN [exc |-> temporal_drifts.exc, drifts |-> <<>>]
             ELSE DistrictLoop(impl, implementation_data, policy_intent, keys, k + 1,
                               metric.drifts \o temporal_drifts.drifts)

detect_all_drift(impl, implementation_data, policy_intent) ==
    DistrictLoop(impl, implementation_data, policy_intent,
                 GroupKeys(implementation_data, 1, <<>>), 1, <<>>)

(***************************************************************************)
(* The backend's detect_all_drift(implementation_data, policy_intent,      *)
(* policy_id, dataset_id, db).  db is NoDb (Python's None) or a database,  *)
(* [drift_results |-> the documents of the collection, in insertion        *)
(* order].  The result is [exc, drifts, db]: the outcome and the database  *)
(* as the call leaves it.  A document is to_dict of a finding without its  *)
(* detected_at, the reading of the clock.                                  *)
(***************************************************************************)
NoDb == [connected |-> FALSE, drift_results |-> <<>>]
Db(docs) == [connected |-> TRUE, drift_results |-> docs]

\* DriftResult.to_dict
to_dict(drift, policy_id, dataset_id) ==
    [policy_id |-> policy_id, dataset_id |-> dataset_id,
     district_id |-> drift.district_id, district_name |-> drift.district_name,
     month |-> drift.month, drift_type |-> drift.drift_type,
     severity |-> drift.severity, constraint_type |-> drift.constraint.type,
     metric |-> drift.constraint.metric, actual_value |-> drift.actual_value,
     expected_threshold |-> drift.expected_threshold]

\* drift_collection.insert_many(drift_docs)
insert_many(db, drift_docs) ==
    [db EXCEPT !.drift_results = @ \o drift_docs]

\* the end of the backend's detect_all_drift storing the first finding only
PersistDrifts_first(all, policy_id, dataset_id, db) ==
    IF all.exc # "none" THEN [exc |-> all.exc, drifts |-> <<>>, db |-> db]
    ELSE IF db.connected /\ all.drifts # <<>>
    THEN [exc |-> "none", drifts |-> all.drifts,
          db |-> insert_many(db, <<to_dict(all.drifts[1], policy_id, dataset_id)>>)]
    ELSE [exc |-> "none", drifts |-> all.drifts, db |-> db]

\* the end of the backend's detect_all_drift: all is the outcome of the
\* loop over the regions, [exc, drifts]
PersistDrifts(all, policy_id, dataset_id, db) ==
    IF all.exc # "none" THEN [exc |-> all.exc, drifts |-> <<>>, db |-> db]
    ELSE IF db.connected /\ all.drifts # <<>>
    THEN [exc |-> "none", drifts |-> all.drifts,
          db |-> insert_many(db, [k \in 1 .. Len(all.drifts) |->
                                    to_dict(all.drifts[k], policy_id, dataset_id)])]
    ELSE [exc |-> "none", drifts |-> all.drifts, db |-> db]

backend_detect_all_drift(implementation_data, policy_intent, policy_id, dataset_id, db) ==
    PersistDrifts(detect_all_drift("backend", implementation_data, policy_intent),
                  policy_id, dataset_id, db)

(***************************************************************************)
(* generate_summary.  The text returned is the list of its lines, joined   *)
(* by newlines in the source; a line is [text, has, n]: the fixed text     *)
(* and, if has, the number formatted after it.                             *)
(***************************************************************************)
Line(text) == [text |-> text, has |-> FALSE, n |-> 0]
CountLine(text, n) == [text |-> text, has |-> TRUE, n |-> n]

\* the key of by_district: the f-string of name and id, which differs
\* whenever the name or the id does
district_key(drift) == <<drift.district_name, drift.district_id>>

\* by_type[t] and by_severity[v] after the loop over the findings
TypeCount(drifts, t) ==
    Cardinality({k \in 1 .. Len(drifts) : drifts[k].drift_type = t})
SeverityCount(drifts, v) ==
    Cardinality({k \in 1 .. Len(drifts) : drifts[k].severity = v})

\* summary_lines, from the tallies
SummaryLines(total, by_type, by_severity, by_district) ==
    LET InDict(line) == line.n > 0
        type_lines ==
            SelectSeq(<<CountLine("  metric: ", by_type["metric"]),
                        CountLine("  temporal: ", by_type["temporal"])>>, InDict)
    IN  <<Line("Policy Drift Detection Summary"),
          Line("=================================================="),
          CountLine("Total drift instances detected: ", total),
          Line(""),
          Line("By type:")>>
        \o type_lines
        \o <<Line(""),
             Line("By severity:"),
             CountLine("  High: ", by_severity["high"]),
             CountLine("  Medium: ", by_severity["medium"]),
             CountLine("  Low: ", by_severity["low"]),
             Line(""),
             CountLine("Districts with drift: ", Cardinality(by_district))>>

\* generate_summary leaving the findings of medium severity out of
\* by_severity
generate_summary_nomedium(drifts) ==
    IF Len(drifts) = 0
    THEN <<Line("No policy drift detected. Implementation aligns with policy intent.")>>
    ELSE SummaryLines(Len(drifts),
                      [t \in {"metric", "temporal"} |-> TypeCount(drifts, t)],
                      [v \in {"low", "medium", "high"} |->
                          IF v = "medium" THEN 0 ELSE SeverityCount(drifts, v)],
                      {district_key(drifts[k]) : k \in 1 .. Len(drifts)})

generate_summary(drifts) ==
    IF Len(drifts) = 0
    THEN <<Line("No policy drift detected. Implementation aligns with policy intent.")>>
    ELSE SummaryLines(Len(drifts),
                      [t \in {"metric", "temporal"} |-> TypeCount(drifts, t)],
                      [v \in {"low", "medium", "high"} |-> SeverityCount(drifts, v)],
                      {district_key(drifts[k]) : k \in 1 .. Len(drifts)})

(***************************************************************************)
(* Input sets.                                                             *)
(***************************************************************************)
Impls == {"cli", "backend"}

\* the three known constraint types and an unrecognized one
Types == {"minimum_coverage", "resource_allocation", "temporal_consistency",
          "custom"}

Fields == {"literacy_rate", "coverage_percentage"}

\* a tolerance band of target_metrics; an absent bound is written 0
Band(hasMin, min, hasMax, max) ==
    [present |-> TRUE, hasMin |-> hasMin, min |-> min, hasMax |-> hasMax,
     max |-> max]
NoBand == [present |-> FALSE, hasMin |-> FALSE, min |-> 0, hasMax |-> FALSE,
           max |-> 0]

\* target_metrics with at most an entry for coverage_percentage
TargetMetrics(band) ==
    [m \in Fields |-> IF m = "coverage_percentage" THEN band ELSE NoBand]

\* ---- calculate_severity
SevNumbers == (0 - MaxSev) .. MaxSev

\* ---- check_metric_constraint
ChkNumbers == (0 - MaxChk) .. MaxChk
ChkValues == {Num(n) : n \in ChkNumbers} \cup {Str("n/a")}
ChkConstraints ==
    [type : Types, metric : {"coverage_percentage"},
     threshold : {Num(n) : n \in ChkNumbers} \cup {None},
     applies_to : {"all"}]
ChkBands ==
    {NoBand} \cup
    {Band(hasMin, IF hasMin THEN min ELSE 0, hasMax, IF hasMax THEN max ELSE 0) :
        hasMin \in BOOLEAN, min \in {-1, 1}, hasMax \in BOOLEAN, max \in {-1, 1}}

\* ---- matches_target_group, classify_district
FieldValues ==
    {Num(n) : n \in 0 .. MaxField} \cup {None, Str("urban"), Str("rural")}
Records ==
    [district_id : {"D1"}, district_name : {"North"}, month : {"2024-01"},
     literacy_rate : FieldValues, coverage_percentage : FieldValues]

Conds ==
    {Range(hasMin, IF hasMin THEN min ELSE 0, hasMax, IF hasMax THEN max ELSE 0) :
        hasMin \in BOOLEAN, min \in {1, 2}, hasMax \in BOOLEAN, max \in {1, 2}}
    \cup {ScalarNum(1), ScalarNum(2), ScalarStr("urban"), ScalarStr("minority")}
Criterion == [field : Fields, cond : Conds]
\* a criteria dict has each field at most once
Criteria ==
    {<<>>} \cup {<<c>> : c \in Criterion}
    \cup {<<c, d>> : c \in {x \in Criterion : x.field = "literacy_rate"},
                     d \in {x \in Criterion : x.field = "coverage_percentage"}}
    \cup {<<d, c>> : c \in {x \in Criterion : x.field = "literacy_rate"},
                     d \in {x \in Criterion : x.field = "coverage_percentage"}}
Groups == [name : {"priority"}, criteria : Criteria]

\* criteria of the groups the classifier is given
ClsCriteria ==
    {<<>>,
     <<[field |-> "literacy_rate", cond |-> Range(FALSE, 0, TRUE, 1)]>>,
     <<[field |-> "literacy_rate", cond |-> Range(TRUE, 1, TRUE, 2)]>>,
     <<[field |-> "literacy_rate", cond |-> Range(TRUE, 2, FALSE, 0)]>>,
     <<[field |-> "coverage_percentage", cond |-> Range(TRUE, 1, FALSE, 0)],
       [field |-> "literacy_rate", cond |-> Range(FALSE, 0, TRUE, 2)]>>,
     <<[field |-> "literacy_rate", cond |-> ScalarNum(1)]>>,
     <<[field |-> "coverage_percentage", cond |-> ScalarStr("urban")]>>}
\* group names are unique within a policy
GroupLists ==
    {<<>>}
    \cup {<<[name |-> n, criteria |-> c]>> : n \in {"priority", "general"},
                                              c \in ClsCriteria}
    \cup {<<[name |-> n, criteria |-> c],
            [name |-> IF n = "priority" THEN "general" ELSE "priority",
             criteria |-> d]>> :
            n \in {"priority", "general"}, c \in ClsCriteria, d \in ClsCriteria}

\* ---- detect_metric_drift
DetValues == {Num(n) : n \in 1 .. MaxField} \cup {None, Str("n/a")}
DetRecords ==
    [district_id : {"D1"}, district_name : {"North"}, month : {"2024-01"},
     literacy_rate : DetValues, coverage_percentage : DetValues]
DetConstraints ==
    [type : Types, metric : Fields, threshold : {Num(2)},
     applies_to : {"priority", "general", "all"}]
    \cup {[type |-> "minimum_coverage", metric |-> "coverage_percentage",
           threshold |-> None, applies_to |-> "all"],
          [type |-> "temporal_consistency", metric |-> "coverage_percentage",
           threshold |-> Num(0), applies_to |-> "all"]}
DetConstraintLists ==
    {<<>>} \cup {<<c>> : c \in DetConstraints}
    \cup {<<c, d>> : c \in DetConstraints, d \in DetConstraints}
DetGroupLists ==
    {<<>>,
     <<[name |-> "priority",
        criteria |-> <<[field |-> "literacy_rate",
                        cond |-> Range(FALSE, 0, TRUE, 1)]>>],
       [name |-> "general",
        criteria |-> <<[field |-> "literacy_rate",
                        cond |-> Range(FALSE, 0, TRUE, 2)]>>]>>,
     <<[name |-> "priority",
        criteria |-> <<[field |-> "literacy_rate", cond |-> ScalarNum(1)]>>]>>}
DetBands == {NoBand, Band(TRUE, 2, TRUE, 2), Band(FALSE, 0, TRUE, 0)}
Policies ==
    [target_groups : DetGroupLists, constraints : DetConstraintLists,
     target_metrics : {TargetMetrics(b) : b \in DetBands}]

\* ---- detect_temporal_drift, detect_all_drift
\* the reporting periods, in input order
Months == <<"2024-01", "2024-02", "2024-03">>
\* a list of records, the i-th being of the i-th period
Dated(records) ==
    [i \in 1 .. Len(records) |-> [records[i] EXCEPT !.month = Months[i]]]

PriorityGeneral ==
    <<[name |-> "priority",
       criteria |-> <<[field |-> "literacy_rate",
                       cond |-> Range(FALSE, 0, TRUE, 1)]>>],
      [name |-> "general",
       criteria |-> <<[field |-> "literacy_rate",
                       cond |-> Range(FALSE, 0, TRUE, 2)]>>]>>

TmpValues == {Num(1), Num(MaxField), None, Str("n/a")}
TmpRecords ==
    [district_id : {"D1"}, district_name : {"North"}, month : {"2024-01"},
     literacy_rate : TmpValues, coverage_percentage : TmpValues]
Histories ==
    {<<>>} \cup {Dated(<<a>>) : a \in TmpRecords}
    \cup {Dated(<<a, b>>) : a \in TmpRecords, b \in TmpRecords}
TmpConstraints ==
    [type : {"temporal_consistency"}, metric : Fields,
     threshold : {Num(2), Num(0), None}, applies_to : {"all", "priority"}]
    \cup {[type |-> "minimum_coverage", metric |-> "coverage_percentage",
           threshold |-> Num(2), applies_to |-> "all"]}
TmpPolicies ==
    [target_groups : {PriorityGeneral},
     constraints : {<<>>} \cup {<<c>> : c \in TmpConstraints}
                   \cup {<<c, d>> : c \in TmpConstraints, d \in TmpConstraints},
     target_metrics : {TargetMetrics(NoBand)}]

DistrictName(district_id) == IF district_id = "D1" THEN "North" ELSE "South"
AllRecords ==
    {[district_id |-> d, district_name |-> DistrictName(d), month |-> "2024-01",
      literacy_rate |-> l, coverage_percentage |-> c] :
        d \in {"D1", "D2"}, l \in {Num(1), Num(MaxField)},
        c \in {Num(1), Num(MaxField), None}}
AllData ==
    {<<>>} \cup {Dated(<<a>>) : a \in AllRecords}
    \cup {Dated(<<a, b>>) : a \in AllRecords, b \in AllRecords}
    \cup {Dated(<<a, b, c>>) : a \in AllRecords, b \in AllRecords, c \in AllRecords}
AllConstraints ==
    {[type |-> "minimum_coverage", metric |-> "coverage_percentage",
      threshold |-> Num(2), applies_to |-> "all"],
     [type |-> "minimum_coverage", metric |-> "literacy_rate",
      threshold |-> Num(2), applies_to |-> "priority"],
     [type |-> "temporal_consistency", metric |-> "coverage_percentage",
      threshold |-> Num(2), applies_to |-> "all"],
     [type |-> "temporal_consistency", metric |-> "coverage_percentage",
      threshold |-> Num(0), applies_to |-> "all"]}
AllPolicies ==
    [target_groups : {PriorityGeneral},
     constraints : {<<>>} \cup {<<c>> : c \in AllConstraints}
                   \cup {<<c, d>> : c \in AllConstraints, d \in AllConstraints},
     target_metrics : {TargetMetrics(NoBand)}]

\* ---- generate_summary
\* findings as the detectors build them: a district under one or another
\* spelling of its name, a value 10, 20 or 40 percent off the threshold
SumDistricts ==
    {[district_id |-> "D1", district_name |-> "North"],
     [district_id |-> "D1", district_name |-> "Nord"],
     [district_id |-> "D2", district_name |-> "South"]}
SumConstraint(type) ==
    [type |-> type, metric |-> "coverage_percentage", threshold |-> Num(10),
     applies_to |-> "all"]
SumFindings ==
    {DriftResult("metric", d.district_id, d.district_name,
                 SumConstraint("minimum_coverage"), a, 10, "2024-01",
                 calculate_severity(a, 10, "minimum_coverage")) :
        d \in SumDistricts, a \in {9, 8, 6}}
    \cup
    {DriftResult("temporal", d.district_id, d.district_name,
                 SumConstraint("temporal_consistency"), a, 10, "2024-01",
                 calculate_severity(a, 10, "temporal_consistency")) :
        d \in SumDistricts, a \in {11, 12, 14}}
DriftLists ==
    {<<>>} \cup {<<a>> : a \in SumFindings}
    \cup {<<a, b>> : a \in SumFindings, b \in SumFindings}
    \cup {<<a, b, c>> : a \in SumFindings, b \in SumFindings, c \in SumFindings}

\* ---- the backend's detect_all_drift
\* no database, an empty collection, a collection with a document of an
\* earlier run
EarlierDoc ==
    [policy_id |-> "p0", dataset_id |-> "d0", district_id |-> "D1",
     district_name |-> "North", month |-> "2023-12", drift_type |-> "metric",
     severity |-> "low", constraint_type |-> "minimum_coverage",
     metric |-> "coverage_percentage", actual_value |-> 1,
     expected_threshold |-> 2]
Dbs == {NoDb, Db(<<>>), Db(<<EarlierDoc>>)}
\* the records the backend is given: two regions, coverage below the
\* threshold or missing
BackendRecords ==
    {r \in AllRecords : r.literacy_rate = Num(1)
                          /\ r.coverage_percentage \in {Num(1), None}}
BackendData ==
    {d \in AllData : \A i \in 1 .. Len(d) :
                        [d[i] EXCEPT !.month = "2024-01"] \in BackendRecords}

(***************************************************************************)
(* The calls.  Every call starts from the idle state, with inputs of its   *)
(* input set, and leaves its arguments and its outcome in the state.       *)
(***************************************************************************)
Init ==
    /\ op = "idle"
    /\ args = <<>>
    /\ ret = <<>>

CalculateSeverity ==
    /\ op = "idle"
    /\ \E actual \in SevNumbers, threshold \in SevNumbers, constraint_type \in Types :
        /\ op' = "calculate_severity"
        /\ args' = [actual |-> actual, threshold |-> threshold,
                    constraint_type |-> constraint_type]
        /\ ret' = calculate_severity(actual, threshold, constraint_type)

CheckMetricConstraint ==
    /\ op = "idle"
    /\ \E value \in ChkValues, constraint \in ChkConstraints, band \in ChkBands :
        /\ op' = "check_metric_constraint"
        /\ args' = [value |-> value, constraint |-> constraint,
                    target_metrics |-> TargetMetrics(band)]
        /\ ret' = check_metric_constraint(value, constraint, TargetMetrics(band))

MatchesTargetGroup ==
    /\ op = "idle"
    /\ \E impl \in Impls, district_data \in Records, target_group \in Groups :
        /\ op' = "matches_target_group"
        /\ args' = [impl |-> impl, district_data |-> district_data,
                    target_group |-> target_group]
        /\ ret' = Matches(impl, district_data, target_group)

ClassifyDistrict ==
    /\ op = "idle"
    /\ \E impl \in Impls, district_data \in Records, target_groups \in GroupLists :
        /\ op' = "classify_district"
        /\ args' = [impl |-> impl, district_data |-> district_data,
                    target_groups |-> target_groups]
        /\ ret' = classify_district(impl, district_data, target_groups)

DetectMetricDrift ==
    /\ op = "idle"
    /\ \E impl \in Impls, district_data \in DetRecords, policy_intent \in Policies :
        /\ op' = "detect_metric_drift"
        /\ args' = [impl |-> impl, district_data |-> district_data,
                    policy_intent |-> policy_intent, month |-> district_data.month]
        /\ ret' = detect_metric_drift(impl, district_data, policy_intent,
                                      district_data.month)

DetectTemporalDrift ==
    /\ op = "idle"
    /\ \E district_history \in Histories, policy_intent \in TmpPolicies :
        /\ op' = "detect_temporal_drift"
        /\ args' = [district_history |-> district_history,
                    policy_intent |-> policy_intent]
        /\ ret' = detect_temporal_drift(district_history, policy_intent)

DetectAllDrift ==
    /\ op = "idle"
    /\ \E impl \in Impls, implementation_data \in AllData,
          policy_intent \in AllPolicies :
        /\ op' = "detect_all_drift"
        /\ args' = [impl |-> impl, implementation_data |-> implementation_data,
                    policy_intent |-> policy_intent]
        /\ ret' = detect_all_drift(impl, implementation_data, policy_intent)

GenerateSummary ==
    /\ op = "idle"
    /\ \E drifts \in DriftLists :
        /\ op' = "generate_summary"
        /\ args' = [drifts |-> drifts]
        /\ ret' = generate_summary(drifts)

BackendDetectAllDrift ==
    /\ op = "idle"
    /\ \E implementation_data \in BackendData, policy_intent \in AllPolicies,
          db \in Dbs :
        /\ op' = "backend_detect_all_drift"
        /\ args' = [implementation_data |-> implementation_data,
                    policy_intent |-> policy_intent, policy_id |-> "p1",
                    dataset_id |-> "d1", db |-> db]
        /\ ret' = backend_detect_all_drift(implementation_data, policy_intent,
                                           "p1", "d1", db)

Next ==
    \/ CalculateSeverity
    \/ CheckMetricConstraint
    \/ MatchesTargetGroup
    \/ ClassifyDistrict
    \/ DetectMetricDrift
    \/ DetectTemporalDrift
    \/ DetectAllDrift
    \/ GenerateSummary
    \/ BackendDetectAllDrift

Spec == Init /\ [][Next]_vars

(***************************************************************************)
(* The regions of one input processed concurrently.  The body of the loop  *)
(* over district_groups in detect_all_drift is run by one worker per       *)
(* district, the workers' detector calls interleaved in any order.  A      *)
(* worker calls detect_metric_drift for each record of its history, then   *)
(* detect_temporal_drift for the history, and collects the findings in a   *)
(* list of its own; the lists are joined in the order of the keys.         *)
(* While the workers run, ret is [pos, results, exc]: for each district    *)
(* the position of its worker (i for the call on the i-th record,          *)
(* Len(history) + 1 for the temporal call, Len(history) + 2 when done),    *)
(* its list so far and the exception that stopped it.                      *)
(***************************************************************************)
\* the worker of a district has no call left
Finished(implementation_data, workers, district_id) ==
    \/ workers.exc[district_id] # "none"
    \/ workers.pos[district_id]
         = Len(GroupHistory(implementation_data, district_id)) + 2

\* what the next detector call of a district's worker gives
WorkerCall(impl, implementation_data, policy_intent, district_id, pos) ==
    LET history == GroupHistory(implementation_data, district_id)
    IN  IF pos <= Len(history)
        THEN LET metric_drifts == detect_metric_drift(impl, history[pos],
                                     policy_intent, history[pos].month)
             IN  [exc |-> metric_drifts.exc, drifts |-> metric_drifts.drifts]
        ELSE detect_temporal_drift(history, policy_intent)

\* the findings of a call added to the lists of every district, as with
\* one list object shared by the workers
Collect_shared(results, district_id, found) ==
    [d \in DOMAIN results |-> results[d] \o found]

\* all_drifts.extend, on the list of the worker's district
Collect(results, district_id, found) ==
    [results EXCEPT ![district_id] = @ \o found]

\* the lists of the districts one after the other, in the order of the keys
RECURSIVE Concat(_, _, _)
Concat(results, keys, k) ==
    IF k > Len(keys) THEN <<>>
    ELSE results[keys[k]] \o Concat(results, keys, k + 1)

\* the exception of the first district, in the order of the keys, whose
\* worker was stopped by one
RECURSIVE FirstExc(_, _, _)
FirstExc(exc, keys, k) ==
    IF k > Len(keys) THEN "none"
    ELSE IF exc[keys[k]] # "none" THEN exc[keys[k]]
    ELSE FirstExc(exc, keys, k + 1)

StartRegions ==
    /\ op = "idle"
    /\ \E impl \in Impls, implementation_data \in AllData,
          policy_intent \in AllPolicies :
        LET keys == GroupKeys(implementation_data, 1, <<>>)
            ids == {keys[k] : k \in 1 .. Len(keys)}
        IN  /\ op' = "regions"
            /\ args' = [impl |-> impl, implementation_data |-> implementation_data,
                        policy_intent |-> policy_intent]
            /\ ret' = [pos |-> [d \in ids |-> 1],
                       results |-> [d \in ids |-> <<>>],
                       exc |-> [d \in ids |-> "none"]]

RegionStep ==
    /\ op = "regions"
    /\ \E d \in DOMAIN ret.pos :
        /\ ~Finished(args.implementation_data, ret, d)
        /\ LET call == WorkerCall(args.impl, args.implementation_data,
                                  args.policy_intent, d, ret.pos[d])
           IN  ret' = IF call.exc # "none"
                      THEN [ret EXCEPT !.exc[d] = call.exc]
                      ELSE [ret EXCEPT !.pos[d] = @ + 1,
                                       !.results = Collect(@, d, call.drifts)]
    /\ UNCHANGED <<op, args>>

JoinRegions ==
    /\ op = "regions"
    /\ \A d \in DOMAIN ret.pos : Finished(args.implementation_data, ret, d)
    /\ LET keys == GroupKeys(args.implementation_data, 1, <<>>)
           exc == FirstExc(ret.exc, keys, 1)
       IN  ret' = [exc |-> exc,
                   drifts |-> IF exc # "none" THEN <<>>
                              ELSE Concat(ret.results, keys, 1)]
    /\ op' = "joined"
    /\ UNCHANGED args

RegionsNext ==
    \/ StartRegions
    \/ RegionStep
    \/ JoinRegions

RegionsSpec == Init /\ [][RegionsNext]_vars

(***************************************************************************)
(* Properties of the constraint evaluator and the severity scorer.         *)
(***************************************************************************)
KnownTypes == {"minimum_coverage", "resource_allocation", "temporal_consistency"}
LowerBoundTypes == {"minimum_coverage", "resource_allocation"}

\* C1: for a numeric value and a constraint of a known type with a numeric
\* threshold, check_metric_constraint reports a violation iff
\* value < threshold (minimum_coverage, resource_allocation) or
\* value > threshold (temporal_consistency); a value equal to the threshold
\* is not a violation, and the returned threshold is the constraint's.
C1_ViolationDirection ==
    (/\ op = "check_metric_constraint"
     /\ args.constraint.type \in KnownTypes
     /\ args.value.tag = "num"
     /\ args.constraint.threshold.tag = "num")
    => LET value == args.value.n
           threshold == args.constraint.threshold.n
       IN  /\ ret.exc = "none"
           /\ ret.threshold = threshold
           /\ args.constraint.type \in LowerBoundTypes
                => (ret.violated <=> value < threshold)
           /\ args.constraint.type = "temporal_consistency"
                => (ret.violated <=> value > threshold)
           /\ value = threshold => ~ret.violated

\* a minimum_coverage value equal to its threshold was checked and passed
C1_Witness ==
    /\ op = "check_metric_constraint"
    /\ args.constraint.type = "minimum_coverage"
    /\ args.value.tag = "num"
    /\ args.constraint.threshold.tag = "num"
    /\ args.value.n = args.constraint.threshold.n
    /\ ret.exc = "none"
    /\ ~ret.violated
    /\ ret.threshold = args.constraint.threshold.n

\* deviation > bound for the deviation of (actual, threshold, type), both
\* sides multiplied by threshold^2 (threshold # 0)
ExceedsPercent(actual, threshold, constraint_type, bound) ==
    LET shortfall == IF constraint_type \in LowerBoundTypes
                     THEN threshold - actual ELSE actual - threshold
    IN  100 * shortfall * threshold > bound * threshold * threshold

\* C2: with deviation = (threshold - actual) / threshold * 100 for
\* minimum_coverage and resource_allocation and
\* (actual - threshold) / threshold * 100 for every other type,
\* calculate_severity returns high iff deviation > 30, medium iff
\* 15 < deviation <= 30 and low iff deviation <= 15, negative deviation
\* included (threshold # 0).
C2_SeverityBands ==
    (op = "calculate_severity" /\ args.threshold # 0)
    => LET over30 == ExceedsPercent(args.actual, args.threshold,
                                    args.constraint_type, 30)
           over15 == ExceedsPercent(args.actual, args.threshold,
                                    args.constraint_type, 15)
       IN  /\ ret \in {"high", "medium", "low"}
           /\ ret = "high" <=> over30
           /\ ret = "medium" <=> (over15 /\ ~over30)
           /\ ret = "low" <=> ~over15

\* a deviation of exactly 30 percent was scored medium
C2_Witness ==
    /\ op = "calculate_severity"
    /\ args.constraint_type = "minimum_coverage"
    /\ args.threshold > 0
    /\ 100 * (args.threshold - args.actual) = 30 * args.threshold
    /\ ret = "medium"

\* C3: scoring a violation against a threshold of exactly 0 returns high,
\* without a division by zero.
C3_ZeroThresholdHigh ==
    (op = "calculate_severity" /\ args.threshold = 0) => ret = "high"

Abs(x) == IF x < 0 THEN 0 - x ELSE x

\* low < medium < high; a call that raised has no tier
Tier(severity) ==
    CASE severity = "low" -> 1
      [] severity = "medium" -> 2
      [] severity = "high" -> 3
      [] OTHER -> 0

\* C4 as stated: for every type and threshold, an actual at least as far
\* from the threshold never has a lower severity tier.
C4_MonotoneInDistance ==
    op = "calculate_severity"
    => \A actual2 \in SevNumbers :
          Abs(actual2 - args.threshold) >= Abs(args.actual - args.threshold)
          => Tier(calculate_severity(actual2, args.threshold, args.constraint_type))
               >= Tier(ret)

\* C4 amended: the same, for two actuals on the same side of the threshold
\* (with threshold 0 both calls raise alike).
C4_MonotoneOnOneSide ==
    op = "calculate_severity"
    => \A actual2 \in SevNumbers :
          (/\ Abs(actual2 - args.threshold) >= Abs(args.actual - args.threshold)
           /\ \/ actual2 <= args.threshold /\ args.actual <= args.threshold
              \/ actual2 >= args.threshold /\ args.actual >= args.threshold)
          => /\ Tier(calculate_severity(actual2, args.threshold,
                                        args.constraint_type)) >= Tier(ret)
             /\ args.threshold = 0
                  => calculate_severity(actual2, args.threshold,
                                        args.constraint_type) = ret

\* a medium shortfall, and a larger shortfall on the same side scored high
C4_Witness ==
    /\ op = "calculate_severity"
    /\ ret = "medium"
    /\ args.actual < args.threshold
    /\ \E actual2 \in SevNumbers :
          /\ actual2 < args.actual
          /\ calculate_severity(actual2, args.threshold, args.constraint_type)
               = "high"

\* C5: whenever check_metric_constraint reports a violation (here against a
\* positive threshold), the deviation computed from the value, the returned
\* threshold and the constraint type is strictly positive.
C5_ViolationDeviationPositive ==
    (/\ op = "check_metric_constraint"
     /\ ret.exc = "none"
     /\ ret.violated
     /\ ret.threshold > 0)
    => DevGT(Deviation(args.value.n, ret.threshold, args.constraint.type), 0)

(***************************************************************************)
(* Properties of the cohort classifier.                                    *)
(***************************************************************************)

\* C6: classify_district returns the name of the first group, in
\* declaration order, that the record matches (the groups before it having
\* been evaluated and found not to match), also when later groups match,
\* and returns "unclassified" exactly when no group matches.
C6_FirstMatchWins ==
    op = "classify_district"
    => LET groups == args.target_groups
           M(i) == Matches(args.impl, args.district_data, groups[i])
       IN  /\ \A i \in 1 .. Len(groups) :
                (M(i) = "True" /\ \A j \in 1 .. (i - 1) : M(j) = "False")
                => ret = groups[i].name
           /\ ret = "unclassified" <=> \A i \in 1 .. Len(groups) : M(i) = "False"

\* two groups match the record and the first one was returned
C6_Witness ==
    /\ op = "classify_district"
    /\ Len(args.target_groups) = 2
    /\ Matches(args.impl, args.district_data, args.target_groups[1]) = "True"
    /\ Matches(args.impl, args.district_data, args.target_groups[2]) = "True"
    /\ args.target_groups[1].criteria # <<>>
    /\ ret = args.target_groups[1].name

\* the record satisfies a {min, max} condition on a field
InRange(district_data, criterion) ==
    LET value == district_data[criterion.field]
    IN  /\ value.tag = "num"
        /\ criterion.cond.hasMin => criterion.cond.min <= value.n
        /\ criterion.cond.hasMax => value.n <= criterion.cond.max

\* C7: in both engines a group with range criteria matches a record whose
\* criterion fields are numbers or missing iff every criterion field has a
\* value v with min <= v when min is present and v <= max when max is
\* present; a missing field makes the match fail, and nothing is raised.
C7_RangeCriteria ==
    (/\ op = "matches_target_group"
     /\ \A k \in 1 .. Len(args.target_group.criteria) :
           /\ args.target_group.criteria[k].cond.tag = "dict"
           /\ args.district_data[args.target_group.criteria[k].field].tag
                \in {"num", "none"})
    => LET criteria == args.target_group.criteria
       IN  /\ ret \in {"True", "False"}
           /\ ret = "True" <=> \A k \in 1 .. Len(criteria) :
                                  InRange(args.district_data, criteria[k])

\* the first field sits on its inclusive min bound, the second field is
\* missing, and the match failed without an error
C7_Witness ==
    /\ op = "matches_target_group"
    /\ Len(args.target_group.criteria) = 2
    /\ LET first == args.target_group.criteria[1]
           second == args.target_group.criteria[2]
       IN  /\ first.cond.tag = "dict" /\ first.cond.hasMin
           /\ args.district_data[first.field] = Num(first.cond.min)
           /\ InRange(args.district_data, first)
           /\ second.cond.tag = "dict"
           /\ args.district_data[second.field] = None
    /\ ret = "False"

\* C8: a criterion whose condition is a scalar (a number or a string) is an
\* exact-equality test on the record's value, and evaluating it raises
\* nothing.
C8_ScalarEquality ==
    (/\ op = "matches_target_group"
     /\ Len(args.target_group.criteria) = 1
     /\ args.target_group.criteria[1].cond.tag \in {"num", "str"}
     /\ args.district_data[args.target_group.criteria[1].field].tag # "none")
    => LET criterion == args.target_group.criteria[1]
       IN  ret = IF PyEq(args.district_data[criterion.field],
                         CondValue(criterion.cond))
                 THEN "True" ELSE "False"

(***************************************************************************)
(* Properties of the per-record detector.                                  *)
(***************************************************************************)
SeqRange(seq) == {seq[i] : i \in 1 .. Len(seq)}

\* C9: detect_metric_drift runs over exactly the constraints whose
\* applies_to is the cohort of this record or "all", in declaration order;
\* every finding is for such a constraint, so an unclassified record has
\* findings for "all" constraints only.
C9_ConstraintScope ==
    (op = "detect_metric_drift" /\ ret.district_group # "TypeError")
    => LET declared == args.policy_intent.constraints
           cohort == classify_district(args.impl, args.district_data,
                                       args.policy_intent.target_groups)
           InScope(c) == c.applies_to = cohort \/ c.applies_to = "all"
       IN  /\ ret.district_group = cohort
           /\ \A c \in SeqRange(declared) :
                 c \in SeqRange(ret.constraints) <=> InScope(c)
           /\ \A k \in 1 .. Len(ret.drifts) : InScope(ret.drifts[k].constraint)
           /\ cohort = "unclassified"
                => \A k \in 1 .. Len(ret.drifts) :
                      ret.drifts[k].constraint.applies_to = "all"

\* the value is below the threshold of a minimum_coverage constraint
Undershoots(district_data, c) ==
    /\ c.type = "minimum_coverage"
    /\ district_data[c.metric].tag = "num"
    /\ c.threshold.tag = "num"
    /\ district_data[c.metric].n < c.threshold.n

\* an unclassified record undershoots a constraint scoped to a cohort and
\* one scoped to "all": the only finding is for the latter; another record
\* of the same region falls under a different set of constraints
C9_Witness ==
    /\ op = "detect_metric_drift"
    /\ ret.district_group = "unclassified"
    /\ Len(args.policy_intent.constraints) = 2
    /\ args.policy_intent.constraints[1].applies_to = "priority"
    /\ Undershoots(args.district_data, args.policy_intent.constraints[1])
    /\ args.policy_intent.constraints[2].applies_to = "all"
    /\ Undershoots(args.district_data, args.policy_intent.constraints[2])
    /\ ret.exc = "none"
    /\ Len(ret.drifts) = 1
    /\ ret.drifts[1].constraint = args.policy_intent.constraints[2]
    /\ \E other \in DetRecords :
          /\ other.district_id = args.district_data.district_id
          /\ detect_metric_drift(args.impl, other, args.policy_intent,
                                 other.month).constraints # ret.constraints

\* C10: no result of detect_metric_drift is for a temporal_consistency
\* constraint, and every result has drift_type "metric".
C10_NoTemporalFinding ==
    op = "detect_metric_drift"
    => \A k \in 1 .. Len(ret.drifts) :
          /\ ret.drifts[k].constraint.type # "temporal_consistency"
          /\ ret.drifts[k].drift_type = "metric"

\* the record exceeds the threshold of an applicable temporal_consistency
\* constraint and undershoots another constraint: one finding, for the latter
C10_Witness ==
    /\ op = "detect_metric_drift"
    /\ ret.exc = "none"
    /\ Len(ret.constraints) = 2
    /\ ret.constraints[1].type = "temporal_consistency"
    /\ args.district_data[ret.constraints[1].metric].tag = "num"
    /\ args.district_data[ret.constraints[1].metric].n
         > ret.constraints[1].threshold.n
    /\ Undershoots(args.district_data, ret.constraints[2])
    /\ Len(ret.drifts) = 1
    /\ ret.drifts[1].constraint = ret.constraints[2]
    /\ ret.drifts[1].drift_type = "metric"

(***************************************************************************)
(* Properties of the detectors on sparse and malformed input.              *)
(***************************************************************************)
\* the record has a value for the constraint's metric
HasMetric(record, c) == record[c.metric].tag # "none"

\* the policy without the constraints whose metric the record lacks
WithoutMissing(policy_intent, record) ==
    LET Present(c) == HasMetric(record, c)
    IN  [policy_intent EXCEPT !.constraints = SelectSeq(@, Present)]

\* the record of a history that a temporal finding is about
RecordOf(district_history, drift) ==
    CHOOSE r \in SeqRange(district_history) : r.month = drift.month

\* the (constraint, record) pairs the temporal detector goes through
TemporalPairs(district_history, policy_intent) ==
    {<<ci, ri>> \in (1 .. Len(policy_intent.constraints))
                    \X (1 .. Len(district_history)) :
        policy_intent.constraints[ci].type = "temporal_consistency"}

\* the value of the pair is present and above the threshold
Exceeds(district_history, policy_intent, pair) ==
    LET c == policy_intent.constraints[pair[1]]
        value == district_history[pair[2]][c.metric]
    IN  /\ Comparable(value, c.threshold)
        /\ value.n > c.threshold.n

\* evaluating the pair raises: a text value, no threshold, or a value above
\* a threshold of 0
PairRaises(district_history, policy_intent, pair) ==
    LET c == policy_intent.constraints[pair[1]]
        value == district_history[pair[2]][c.metric]
    IN  /\ value.tag # "none"
        /\ \/ ~Comparable(value, c.threshold)
           \/ value.n > c.threshold.n /\ c.threshold.n = 0

\* C11: a constraint whose metric the record lacks yields no finding for
\* that record and no failure, and the other constraints and records are
\* still evaluated: detect_metric_drift returns (or raises) what it does
\* for the policy without those constraints; in detect_temporal_drift a
\* finding is always about a record that has the metric, a failure always
\* comes from a pair whose value is present, and without one every pair
\* with a value above its threshold has its finding.
C11_MissingMetricSkipped ==
    /\ op = "detect_metric_drift"
         => LET other == detect_metric_drift(
                            args.impl, args.district_data,
                            WithoutMissing(args.policy_intent, args.district_data),
                            args.month)
            IN  /\ ret.exc = other.exc
                /\ ret.drifts = other.drifts
                /\ \A k \in 1 .. Len(ret.drifts) :
                      HasMetric(args.district_data, ret.drifts[k].constraint)
    /\ (op = "detect_temporal_drift" /\ Len(args.district_history) >= 2)
         => LET pairs == TemporalPairs(args.district_history, args.policy_intent)
                raising == {p \in pairs : PairRaises(args.district_history,
                                                     args.policy_intent, p)}
                flagged == {p \in pairs : Exceeds(args.district_history,
                                                  args.policy_intent, p)}
            IN  /\ \A k \in 1 .. Len(ret.drifts) :
                      HasMetric(RecordOf(args.district_history, ret.drifts[k]),
                                ret.drifts[k].constraint)
                /\ ret.exc # "none" => raising # {}
                /\ ret.exc = "none" => Len(ret.drifts) = Cardinality(flagged)

\* the record lacks the metric of the first of two applicable constraints
\* and undershoots the second: one finding, for the second
C11_Witness ==
    /\ op = "detect_metric_drift"
    /\ Len(ret.constraints) = 2
    /\ ret.constraints[1].type = "minimum_coverage"
    /\ ~HasMetric(args.district_data, ret.constraints[1])
    /\ Undershoots(args.district_data, ret.constraints[2])
    /\ ret.exc = "none"
    /\ Len(ret.drifts) = 1
    /\ ret.drifts[1].constraint = ret.constraints[2]

\* the record with its text values taken as missing
TextAsMissing(record) ==
    [record EXCEPT
        !.literacy_rate = IF @.tag = "str" THEN None ELSE @,
        !.coverage_percentage = IF @.tag = "str" THEN None ELSE @]

\* C12: a value that is text is treated as missing: detect_metric_drift
\* (here with a policy whose constraints all have a threshold) returns what
\* it returns for the record without its text values, and no error is
\* raised by a numeric comparison with the text.
C12_TextTreatedAsMissing ==
    (/\ op = "detect_metric_drift"
     /\ \A c \in SeqRange(args.policy_intent.constraints) :
           c.threshold.tag = "num")
    => LET other == detect_metric_drift(args.impl,
                                        TextAsMissing(args.district_data),
                                        args.policy_intent, args.month)
       IN  /\ ret.exc = other.exc
           /\ ret.drifts = other.drifts

\* C13: a constraint of a known type that lacks its threshold (here one that
\* applies to the record, whose metric the record has as a number) makes
\* the detector fail with InvalidPolicyIntent, not with a comparison error.
C13_MissingThresholdSurfaced ==
    (/\ op = "detect_metric_drift"
     /\ \E c \in SeqRange(args.policy_intent.constraints) :
           /\ c.type \in KnownTypes \ {"temporal_consistency"}
           /\ c.threshold = None
           /\ c.applies_to = "all"
           /\ args.district_data[c.metric].tag = "num")
    => ret.exc = "InvalidPolicyIntent"

(***************************************************************************)
(* Properties of the temporal detector.                                    *)
(***************************************************************************)

\* C14: detect_temporal_drift returns an empty list for every history of
\* length 0 or 1, whatever the policy and the values.
C14_ShortHistoryEmpty ==
    (op = "detect_temporal_drift" /\ Len(args.district_history) < 2)
    => ret.exc = "none" /\ ret.drifts = <<>>

\* a single record exceeds the threshold of a temporal_consistency
\* constraint, and nothing was returned for it
C14_Witness ==
    /\ op = "detect_temporal_drift"
    /\ Len(args.district_history) = 1
    /\ \E p \in TemporalPairs(args.district_history, args.policy_intent) :
          /\ Exceeds(args.district_history, args.policy_intent, p)
          /\ args.policy_intent.constraints[p[1]].threshold.n # 0
    /\ ret.exc = "none"
    /\ ret.drifts = <<>>

\* the finding of a (constraint, record) pair
TemporalFinding(district_history, policy_intent, pair) ==
    LET c == policy_intent.constraints[pair[1]]
        record == district_history[pair[2]]
    IN  [drift_type |-> "temporal", district_id |-> record.district_id,
         district_name |-> record.district_name, constraint |-> c,
         actual_value |-> record[c.metric].n,
         expected_threshold |-> c.threshold.n, month |-> record.month]

\* the list has exactly one finding for each pair above its threshold and
\* no other: as many findings as pairs, each pair's finding among them
OnePerExceedingPair(drifts, district_history, policy_intent) ==
    LET flagged == {p \in TemporalPairs(district_history, policy_intent) :
                       Exceeds(district_history, policy_intent, p)}
        Shown(k) == [f \in DOMAIN TemporalFinding(district_history, policy_intent,
                                                  <<1, 1>>) |-> drifts[k][f]]
    IN  /\ Len(drifts) = Cardinality(flagged)
        /\ \A p \in flagged : \E k \in 1 .. Len(drifts) :
              Shown(k) = TemporalFinding(district_history, policy_intent, p)
        /\ \A k \in 1 .. Len(drifts) : \E p \in flagged :
              Shown(k) = TemporalFinding(district_history, policy_intent, p)

\* C15: for a history of two or more records (numeric or missing values,
\* every temporal_consistency constraint with a threshold)
\* detect_temporal_drift returns exactly one result for each
\* temporal_consistency constraint and record whose value is present and
\* above the threshold, with drift_type "temporal", the record's month and
\* value and the constraint's threshold, and no other result.
C15_OnePerExceedingRecord ==
    (/\ op = "detect_temporal_drift"
     /\ Len(args.district_history) >= 2
     /\ \A p \in TemporalPairs(args.district_history, args.policy_intent) :
           /\ args.policy_intent.constraints[p[1]].threshold.tag = "num"
           /\ args.district_history[p[2]]
                [args.policy_intent.constraints[p[1]].metric].tag # "str")
    => /\ ret.exc = "none"
       /\ OnePerExceedingPair(ret.drifts, args.district_history,
                              args.policy_intent)

\* the same, for the runs that return: used to see that a threshold of 0 is
\* the only input on which C15_OnePerExceedingRecord fails
C15_HoldsWhenReturned ==
    (/\ op = "detect_temporal_drift"
     /\ Len(args.district_history) >= 2
     /\ ret.exc = "none")
    => OnePerExceedingPair(ret.drifts, args.district_history, args.policy_intent)

(***************************************************************************)
(* Properties of detect_all_drift.                                         *)
(***************************************************************************)

\* the position at which a district id first appears in the input
FirstSeen(implementation_data, district_id) ==
    CHOOSE i \in 1 .. Len(implementation_data) :
        /\ implementation_data[i].district_id = district_id
        /\ \A j \in 1 .. i - 1 : implementation_data[j].district_id # district_id

\* the position in the input of the record of a month
MonthPos(implementation_data, month) ==
    CHOOSE i \in 1 .. Len(implementation_data) :
        implementation_data[i].month = month

\* C16: detect_all_drift returns one block of findings per region, the
\* blocks in the order in which the district ids first appear in the input;
\* inside a block the metric findings come first, in the input order of
\* the region's records, and the temporal findings follow; no finding of
\* another region lies between two findings of one region.
C16_RegionBlocks ==
    (op = "detect_all_drift" /\ ret.exc = "none")
    => LET drifts == ret.drifts
           data == args.implementation_data
           Same(i, j) == drifts[i].district_id = drifts[j].district_id
       IN  \A i \in 1 .. Len(drifts) : \A j \in i + 1 .. Len(drifts) :
              /\ ~Same(i, j)
                   => FirstSeen(data, drifts[i].district_id)
                        < FirstSeen(data, drifts[j].district_id)
              /\ Same(i, j)
                   => /\ \A m \in i .. j : Same(i, m)
                      /\ drifts[i].drift_type = "temporal"
                           => drifts[j].drift_type = "temporal"
                      /\ drifts[j].drift_type = "metric"
                           => MonthPos(data, drifts[i].month)
                                <= MonthPos(data, drifts[j].month)

\* the records of the first district lie around the record of the second;
\* the temporal finding of the first district's last record is returned
\* before the metric finding of the second district's record
C16_Witness ==
    /\ op = "detect_all_drift"
    /\ ret.exc = "none"
    /\ Len(args.implementation_data) = 3
    /\ args.implementation_data[1].district_id = "D1"
    /\ args.implementation_data[2].district_id = "D2"
    /\ args.implementation_data[3].district_id = "D1"
    /\ \E i \in 1 .. Len(ret.drifts) : \E j \in i + 1 .. Len(ret.drifts) :
          \E k \in j + 1 .. Len(ret.drifts) :
            /\ ret.drifts[i].district_id = "D1"
            /\ ret.drifts[i].drift_type = "metric"
            /\ ret.drifts[i].month = Months[1]
            /\ ret.drifts[j].district_id = "D1"
            /\ ret.drifts[j].drift_type = "temporal"
            /\ ret.drifts[j].month = Months[3]
            /\ ret.drifts[k].district_id = "D2"
            /\ ret.drifts[k].drift_type = "metric"
            /\ ret.drifts[k].month = Months[2]

\* the district ids of the input
DistrictIds(implementation_data) ==
    {implementation_data[i].district_id : i \in 1 .. Len(implementation_data)}

\* what detect_metric_drift gives for the i-th record of the input
MetricOf(impl, implementation_data, policy_intent, i) ==
    detect_metric_drift(impl, implementation_data[i], policy_intent,
                        implementation_data[i].month)

\* what detect_temporal_drift gives for the grouped history of a district
TemporalOf(implementation_data, policy_intent, district_id) ==
    detect_temporal_drift(GroupHistory(implementation_data, district_id),
                          policy_intent)

\* the sum of f over a finite set
RECURSIVE SumOver(_, _)
SumOver(S, f) ==
    IF S = {} THEN 0
    ELSE LET x == CHOOSE y \in S : TRUE
         IN  Len(f[x]) + SumOver(S \ {x}, f)

\* the number of entries of a list that equal a finding
Occurrences(drifts, d) == Cardinality({k \in 1 .. Len(drifts) : drifts[k] = d})

\* C17: the number of findings detect_all_drift returns is the sum of the
\* findings detect_metric_drift returns for each record and of the findings
\* detect_temporal_drift returns for each region's grouped history; every
\* such finding is returned and no other; the call fails exactly when one
\* of these calls fails.
C17_CountIsSum ==
    op = "detect_all_drift"
    => LET data == args.implementation_data
           ids == DistrictIds(data)
           metric == [i \in 1 .. Len(data) |->
                        MetricOf(args.impl, data, args.policy_intent, i)]
           temporal == [d \in ids |-> TemporalOf(data, args.policy_intent, d)]
           fails == \/ \E i \in 1 .. Len(data) : metric[i].exc # "none"
                    \/ \E d \in ids : temporal[d].exc # "none"
           found == [i \in 1 .. Len(data) |-> metric[i].drifts]
           foundT == [d \in ids |-> temporal[d].drifts]
       IN  /\ ret.exc # "none" <=> fails
           /\ ret.exc = "none"
                => /\ Len(ret.drifts) = SumOver(1 .. Len(data), found)
                                           + SumOver(ids, foundT)
                   /\ \A i \in 1 .. Len(data) : \A k \in 1 .. Len(found[i]) :
                         Occurrences(ret.drifts, found[i][k])
                            = Occurrences(found[i], found[i][k])
                   /\ \A d \in ids : \A k \in 1 .. Len(foundT[d]) :
                         Occurrences(ret.drifts, foundT[d][k])
                            = Occurrences(foundT[d], foundT[d][k])

\* two regions, each with a record that has a metric finding, one of them
\* with a temporal finding: three findings returned
C17_Witness ==
    /\ op = "detect_all_drift"
    /\ ret.exc = "none"
    /\ Cardinality(DistrictIds(args.implementation_data)) = 2
    /\ \A d \in DistrictIds(args.implementation_data) :
          \E i \in 1 .. Len(args.implementation_data) :
            /\ args.implementation_data[i].district_id = d
            /\ Len(MetricOf(args.impl, args.implementation_data,
                            args.policy_intent, i).drifts) = 1
    /\ \E d \in DistrictIds(args.implementation_data) :
          Len(TemporalOf(args.implementation_data, args.policy_intent, d).drifts) >= 1
    /\ Len(ret.drifts) = 3

(***************************************************************************)
(* One finding per violated constraint.                                    *)
(***************************************************************************)

\* the record's value for the constraint's metric is a number on the
\* violating side: below the threshold of minimum_coverage and
\* resource_allocation, outside the band of target_metrics for a type of
\* its own
MetricViolated(record, c, target_metrics) ==
    LET value == record[c.metric]
        band == target_metrics[c.metric]
    IN  /\ value.tag = "num"
        /\ IF c.type \in LowerBoundTypes
           THEN c.threshold.tag = "num" /\ value.n < c.threshold.n
           ELSE /\ c.type \notin KnownTypes
                /\ band.present
                /\ \/ band.hasMin /\ value.n < band.min
                   \/ band.hasMax /\ value.n > band.max

\* the positions in the policy of the constraints a finding is due for:
\* applicable to the record's cohort, not temporal, violated
Due(record, policy_intent, district_group) ==
    {i \in 1 .. Len(policy_intent.constraints) :
        LET c == policy_intent.constraints[i]
        IN  /\ c.applies_to \in {"all", district_group}
            /\ c.type # "temporal_consistency"
            /\ MetricViolated(record, c, policy_intent.target_metrics)}

\* the list has one finding per due constraint, a constraint given twice
\* having two
OnePerDue(drifts, record, policy_intent, district_group) ==
    LET due == Due(record, policy_intent, district_group)
    IN  /\ Len(drifts) = Cardinality(due)
        /\ \A i \in due :
              Cardinality({k \in 1 .. Len(drifts) :
                              drifts[k].constraint = policy_intent.constraints[i]})
                = Cardinality({j \in due : policy_intent.constraints[j]
                                             = policy_intent.constraints[i]})

\* C18: findings are not merged: for a record (numeric or missing values,
\* every constraint with a threshold, the cohort determined)
\* detect_metric_drift returns exactly one result per applicable
\* non-temporal constraint whose metric is present and violated, so k
\* violated constraints give k results, also when they name one metric.
C18_OnePerViolatedConstraint ==
    (/\ op = "detect_metric_drift"
     /\ ret.district_group # "TypeError"
     /\ \A f \in Fields : args.district_data[f].tag # "str"
     /\ \A c \in SeqRange(args.policy_intent.constraints) :
           c.threshold.tag = "num")
    => /\ ret.exc = "none"
       /\ OnePerDue(ret.drifts, args.district_data, args.policy_intent,
                    ret.district_group)

\* the same, for the runs that return: the runs that fail are the only
\* ones on which C18_OnePerViolatedConstraint fails
C18_HoldsWhenReturned ==
    (op = "detect_metric_drift" /\ ret.exc = "none")
    => OnePerDue(ret.drifts, args.district_data, args.policy_intent,
                 ret.district_group)

\* two constraints on one metric are both violated and each has its finding
C18_TwoOnOneMetric ==
    /\ op = "detect_metric_drift"
    /\ ret.exc = "none"
    /\ Len(args.policy_intent.constraints) = 2
    /\ args.policy_intent.constraints[1].metric
         = args.policy_intent.constraints[2].metric
    /\ Len(ret.drifts) = 2

(***************************************************************************)
(* Properties of generate_summary.                                         *)
(***************************************************************************)

\* the number a summary reports after a text, 0 if it has no such line
Reported(summary, text) ==
    IF \E i \in 1 .. Len(summary) : summary[i].text = text /\ summary[i].has
    THEN summary[CHOOSE i \in 1 .. Len(summary) :
                    summary[i].text = text /\ summary[i].has].n
    ELSE 0

\* C19: generate_summary of an empty list returns the fixed no-drift
\* sentence and no counts; of N >= 1 findings it reports a total of N, the
\* High, Medium and Low counts sum to N, and so do the counts per type.
C19_SummaryCounts ==
    op = "generate_summary"
    => IF args.drifts = <<>>
       THEN /\ Len(ret) = 1
            /\ ret[1].text
                 = "No policy drift detected. Implementation aligns with policy intent."
            /\ ~ret[1].has
       ELSE LET N == Len(args.drifts)
            IN  /\ Reported(ret, "Total drift instances detected: ") = N
                /\ Reported(ret, "  High: ") + Reported(ret, "  Medium: ")
                     + Reported(ret, "  Low: ") = N
                /\ Reported(ret, "  metric: ") + Reported(ret, "  temporal: ") = N

\* three findings, one of each severity, of both types
C19_Witness ==
    /\ op = "generate_summary"
    /\ Len(args.drifts) = 3
    /\ Reported(ret, "Total drift instances detected: ") = 3
    /\ Reported(ret, "  High: ") = 1
    /\ Reported(ret, "  Medium: ") = 1
    /\ Reported(ret, "  Low: ") = 1
    /\ Reported(ret, "  metric: ") = 2
    /\ Reported(ret, "  temporal: ") = 1

\* C20: the "Districts with drift" figure is the number of distinct
\* district ids among the findings, also when findings of one district id
\* carry different district names.
C20_DistinctDistrictIds ==
    (op = "generate_summary" /\ args.drifts # <<>>)
    => Reported(ret, "Districts with drift: ")
         = Cardinality({args.drifts[k].district_id : k \in 1 .. Len(args.drifts)})

(***************************************************************************)
(* Severity of the findings.                                               *)
(***************************************************************************)

\* the severity of a finding is calculate_severity of its own fields
OwnSeverity(drift) ==
    drift.severity = calculate_severity(drift.actual_value,
                                        drift.expected_threshold,
                                        drift.constraint.type)

\* C21: every DriftResult a detector returns has the severity that
\* calculate_severity gives for the result's own actual_value,
\* expected_threshold and constraint type; nothing else enters it.
C21_SeverityOfOwnFields ==
    op \in {"detect_metric_drift", "detect_temporal_drift", "detect_all_drift"}
    => \A k \in 1 .. Len(ret.drifts) : OwnSeverity(ret.drifts[k])

\* a finding of a constraint of a type of its own, scored against the bound
\* of the band and not low
C21_Witness ==
    /\ op = "detect_metric_drift"
    /\ \E k \in 1 .. Len(ret.drifts) :
          /\ ret.drifts[k].constraint.type \notin KnownTypes
          /\ ret.drifts[k].severity = "high"
          /\ ret.drifts[k].expected_threshold
               = args.policy_intent.target_metrics[
                    ret.drifts[k].constraint.metric].max

(***************************************************************************)
(* Properties of the concurrent processing of the regions.                 *)
(***************************************************************************)

\* what the worker of a district has collected when it is at a position,
\* whatever the other workers have done
RECURSIVE OwnResults(_, _, _, _, _)
OwnResults(impl, implementation_data, policy_intent, district_id, pos) ==
    IF pos = 1 THEN <<>>
    ELSE OwnResults(impl, implementation_data, policy_intent, district_id, pos - 1)
         \o WorkerCall(impl, implementation_data, policy_intent, district_id,
                       pos - 1).drifts

\* C22: with the regions of one input processed concurrently, in any
\* interleaving of the per-region detector calls, the list of a region
\* depends on that region's progress only, and the lists joined in
\* first-seen region order are the list the sequential detect_all_drift
\* returns (the joined run fails exactly when the sequential one does).
C22_RegionsIndependent ==
    LET sequential == detect_all_drift(args.impl, args.implementation_data,
                                       args.policy_intent)
    IN  /\ op = "regions"
             => \A d \in DOMAIN ret.pos :
                   ret.results[d] = OwnResults(args.impl, args.implementation_data,
                                               args.policy_intent, d, ret.pos[d])
        /\ op = "joined"
             => /\ ret.exc = sequential.exc
                /\ ret.drifts = sequential.drifts

\* two regions, the records of the first around the record of the second,
\* findings in both: the joined list is the sequential one
C22_Witness ==
    /\ op = "joined"
    /\ ret.exc = "none"
    /\ Len(args.implementation_data) = 3
    /\ args.implementation_data[1].district_id = "D1"
    /\ args.implementation_data[2].district_id = "D2"
    /\ args.implementation_data[3].district_id = "D1"
    /\ \E i \in 1 .. Len(ret.drifts) : \E j \in 1 .. Len(ret.drifts) :
          /\ ret.drifts[i].district_id = "D1"
          /\ ret.drifts[i].drift_type = "temporal"
          /\ ret.drifts[j].district_id = "D2"

\* while the second region's worker has finished, the first region's worker
\* has not made its first call
C22_SecondRegionFirst ==
    /\ op = "regions"
    /\ DOMAIN ret.pos = {"D1", "D2"}
    /\ args.implementation_data[1].district_id = "D1"
    /\ ret.pos["D1"] = 1
    /\ Finished(args.implementation_data, ret, "D2")
    /\ ret.results["D2"] # <<>>

(***************************************************************************)
(* Persistence.                                                            *)
(***************************************************************************)

BelowMin(value, band) == band.present /\ band.hasMin /\ value.n < band.min
AboveMax(value, band) == band.present /\ band.hasMax /\ value.n > band.max

\* C24: for a constraint of unrecognized type and a numeric value,
\* check_metric_constraint reports (violated, min) when the band of
\* target_metrics has a min and the value is below it, otherwise
\* (violated, max) when it has a max and the value is above it, and
\* otherwise, without a band also, (not violated, 0); in that last case
\* detect_metric_drift has no finding for the constraint.
C24_UnrecognizedTypeBand ==
    /\ (/\ op = "check_metric_constraint"
        /\ args.constraint.type \notin KnownTypes
        /\ args.value.tag = "num")
         => LET band == args.target_metrics[args.constraint.metric]
            IN  ret = IF BelowMin(args.value, band) THEN CheckOk(TRUE, band.min)
                      ELSE IF AboveMax(args.value, band)
                      THEN CheckOk(TRUE, band.max)
                      ELSE CheckOk(FALSE, 0)
    /\ op = "detect_metric_drift"
         => \A k \in 1 .. Len(ret.drifts) :
               LET c == ret.drifts[k].constraint
                   band == args.policy_intent.target_metrics[c.metric]
               IN  c.type \notin KnownTypes
                     => \/ BelowMin(args.district_data[c.metric], band)
                        \/ AboveMax(args.district_data[c.metric], band)

\* a value below the min and above the max of a band: the min is reported
C24_Witness ==
    /\ op = "check_metric_constraint"
    /\ args.constraint.type \notin KnownTypes
    /\ args.value.tag = "num"
    /\ BelowMin(args.value, args.target_metrics[args.constraint.metric])
    /\ AboveMax(args.value, args.target_metrics[args.constraint.metric])
    /\ ret = CheckOk(TRUE, args.target_metrics[args.constraint.metric].min)

\* an unrecognized type without a band: no violation, whatever the value
C24_NoBand ==
    /\ op = "check_metric_constraint"
    /\ args.constraint.type \notin KnownTypes
    /\ ~args.target_metrics[args.constraint.metric].present
    /\ args.value.tag = "str"
    /\ ret = CheckOk(FALSE, 0)

(***************************************************************************)
(* Order of the findings.                                                  *)
(***************************************************************************)

\* the constraints of the findings are, in their order, constraints of the
\* list at increasing positions
InDeclarationOrder(drifts, constraints) ==
    \E f \in [1 .. Len(drifts) -> 1 .. Len(constraints)] :
        /\ \A k \in 1 .. Len(drifts) : drifts[k].constraint = constraints[f[k]]
        /\ \A j \in 1 .. Len(drifts) : \A k \in j + 1 .. Len(drifts) : f[j] < f[k]

\* C25: the results detect_metric_drift returns for one record are in the
\* order in which their constraints are declared in the policy intent.
C25_DeclarationOrder ==
    (op = "detect_metric_drift" /\ ret.exc = "none")
    => InDeclarationOrder(ret.drifts, args.policy_intent.constraints)

\* two different constraints, both with a finding
C25_Witness ==
    /\ op = "detect_metric_drift"
    /\ ret.exc = "none"
    /\ Len(ret.drifts) = 2
    /\ ret.drifts[1].constraint # ret.drifts[2].constraint
    /\ ret.drifts[1].constraint = args.policy_intent.constraints[1]
    /\ ret.drifts[2].constraint = args.policy_intent.constraints[2]

(***************************************************************************)
(* Independence of the records of a history.                               *)
(***************************************************************************)

\* the findings of an outcome, as a set; none when the call raised
FindingSet(outcome) == {outcome.drifts[k] : k \in 1 .. Len(outcome.drifts)}

\* the history in the opposite order
Reversed(district_history) ==
    [i \in 1 .. Len(district_history) |->
        district_history[Len(district_history) + 1 - i]]

\* the history with the values of every record but the i-th taken out
OthersBlank(district_history, i) ==
    [j \in 1 .. Len(district_history) |->
        IF j = i THEN district_history[j]
        ELSE [district_history[j] EXCEPT !.literacy_rate = None,
                                         !.coverage_percentage = None]]

\* the findings of an outcome that are about the record of a month
FindingsOf(outcome, month) == {d \in FindingSet(outcome) : d.month = month}

\* C26: detect_temporal_drift evaluates each record independently of its
\* position and of the other records (here: every temporal constraint with
\* a threshold other than 0): a history of two or more records in another
\* order gives the same set of findings, and the findings about a record
\* are those it has when the other records have no values.
C26_RecordsIndependent ==
    (/\ op = "detect_temporal_drift"
     /\ Len(args.district_history) >= 2
     /\ \A c \in SeqRange(args.policy_intent.constraints) :
           c.threshold.tag = "num" /\ c.threshold.n # 0)
    => /\ FindingSet(ret)
            = FindingSet(detect_temporal_drift(Reversed(args.district_history),
                                               args.policy_intent))
       /\ \A i \in 1 .. Len(args.district_history) :
             FindingsOf(ret, args.district_history[i].month)
               = FindingsOf(detect_temporal_drift(
                                OthersBlank(args.district_history, i),
                                args.policy_intent),
                            args.district_history[i].month)

\* the same for the histories without text values: the text of another
\* record is the only way the records of these histories depend on each
\* other
C26_HoldsWithoutText ==
    (/\ op = "detect_temporal_drift"
     /\ Len(args.district_history) >= 2
     /\ \A c \in SeqRange(args.policy_intent.constraints) :
           c.threshold.tag = "num" /\ c.threshold.n # 0
     /\ \A i \in 1 .. Len(args.district_history) : \A f \in Fields :
           args.district_history[i][f].tag # "str")
    => /\ ret.exc = "none"
       /\ FindingSet(ret)
            = FindingSet(detect_temporal_drift(Reversed(args.district_history),
                                               args.policy_intent))
       /\ \A i \in 1 .. Len(args.district_history) :
             FindingsOf(ret, args.district_history[i].month)
               = FindingsOf(detect_temporal_drift(
                                OthersBlank(args.district_history, i),
                                args.policy_intent),
                            args.district_history[i].month)

(***************************************************************************)
(* Scope of the temporal constraints.                                      *)
(***************************************************************************)

\* the policy with every constraint scoped to "all"
ScopedToAll(policy_intent) ==
    [policy_intent EXCEPT
        !.constraints = [i \in 1 .. Len(@) |-> [@[i] EXCEPT !.applies_to = "all"]]]

\* C27: detect_temporal_drift applies every temporal_consistency constraint
\* to every record whatever the constraint's applies_to and the record's
\* cohort: it returns (or fails) as for the policy with every constraint
\* scoped to "all", the findings differing in the applies_to of their
\* constraint only.
C27_TemporalIgnoresScope ==
    op = "detect_temporal_drift"
    => LET other == detect_temporal_drift(args.district_history,
                                          ScopedToAll(args.policy_intent))
       IN  /\ ret.exc = other.exc
           /\ Len(ret.drifts) = Len(other.drifts)
           /\ \A k \in 1 .. Len(ret.drifts) :
                 [ret.drifts[k] EXCEPT !.constraint.applies_to = "all"]
                    = other.drifts[k]

\* a constraint scoped to the cohort "priority" has a finding for a record
\* that is not of that cohort
C27_Witness ==
    /\ op = "detect_temporal_drift"
    /\ ret.exc = "none"
    /\ \E k \in 1 .. Len(ret.drifts) :
          LET record == RecordOf(args.district_history, ret.drifts[k])
          IN  /\ ret.drifts[k].constraint.applies_to = "priority"
              /\ record.literacy_rate.tag = "num"
              /\ classify_district("cli", record, args.policy_intent.target_groups)
                   = "unclassified"

(***************************************************************************)
(* Regions with a single record.                                           *)
(***************************************************************************)

\* the i-th record of the input has a value above the threshold of the
\* temporal_consistency constraint c
ExceedsTemporal(implementation_data, i, c) ==
    /\ c.type = "temporal_consistency"
    /\ Comparable(implementation_data[i][c.metric], c.threshold)
    /\ implementation_data[i][c.metric].n > c.threshold.n

\* a finding of the list is about the i-th record and the constraint c
HasFinding(drifts, implementation_data, i, c) ==
    \E k \in 1 .. Len(drifts) :
        /\ drifts[k].district_id = implementation_data[i].district_id
        /\ drifts[k].month = implementation_data[i].month
        /\ drifts[k].constraint = c

\* the findings about the temporal_consistency constraints are those of
\* the records above the threshold whose region has two records or more
TemporalNeedsTwo(drifts, implementation_data, policy_intent) ==
    \A i \in 1 .. Len(implementation_data) :
       \A c \in SeqRange(policy_intent.constraints) :
          c.type = "temporal_consistency"
            => (HasFinding(drifts, implementation_data, i, c)
                 <=> /\ ExceedsTemporal(implementation_data, i, c)
                     /\ Len(GroupHistory(implementation_data,
                                         implementation_data[i].district_id)) >= 2)

\* C28: in detect_all_drift a region with exactly one record has no finding
\* for a temporal_consistency constraint, also when the record's value is
\* above the threshold; a record above the threshold has the finding as
\* soon as its region has a second record.
C28_SingleRecordNoTemporal ==
    op = "detect_all_drift"
    => TemporalNeedsTwo(ret.drifts, args.implementation_data, args.policy_intent)

\* the same, for the runs that return: a run that fails is the only one in
\* which a record above the threshold, in a region of two records, has no
\* finding
C28_HoldsWhenReturned ==
    (op = "detect_all_drift" /\ ret.exc = "none")
    => TemporalNeedsTwo(ret.drifts, args.implementation_data, args.policy_intent)

\* two records of equal value above the threshold, one the only record of
\* its region and without a finding, the other in a region of two records
\* and with its finding
C28_SingleAndPair ==
    /\ op = "detect_all_drift"
    /\ ret.exc = "none"
    /\ \E i, j \in 1 .. Len(args.implementation_data) :
          \E c \in SeqRange(args.policy_intent.constraints) :
            /\ ExceedsTemporal(args.implementation_data, i, c)
            /\ ExceedsTemporal(args.implementation_data, j, c)
            /\ args.implementation_data[i][c.metric]
                 = args.implementation_data[j][c.metric]
            /\ Len(GroupHistory(args.implementation_data,
                                args.implementation_data[i].district_id)) = 1
            /\ ~HasFinding(ret.drifts, args.implementation_data, i, c)
            /\ HasFinding(ret.drifts, args.implementation_data, j, c)

(***************************************************************************)
(* The order of the temporal findings.                                     *)
(***************************************************************************)

\* the temporal_consistency constraints of a policy, in declared order
DeclaredTemporal(policy_intent) ==
    LET IsTemporal(c) == c.type = "temporal_consistency"
    IN  SelectSeq(policy_intent.constraints, IsTemporal)

\* the pairs <<p, r>>: the r-th record of the history is above the threshold
\* of the p-th declared temporal constraint
ExceedingPairs(district_history, policy_intent) ==
    LET tc == DeclaredTemporal(policy_intent)
    IN  {pr \in (1 .. Len(tc)) \X (1 .. Len(district_history)) :
           ExceedsTemporal(district_history, pr[2], tc[pr[1]])}

\* the place of a pair among the pairs, constraint first, record second
ConstraintMajorRank(pairs, pr) ==
    Cardinality({q \in pairs : \/ q[1] < pr[1]
                               \/ q[1] = pr[1] /\ q[2] <= pr[2]})

\* C29: the list detect_temporal_drift returns is ordered constraint-major:
\* the findings of the first declared temporal_consistency constraint, in
\* history order, come before those of the next one.
C29_ConstraintMajor ==
    (op = "detect_temporal_drift" /\ ret.exc = "none"
       /\ Len(args.district_history) >= 2)
    => LET tc == DeclaredTemporal(args.policy_intent)
           pairs == ExceedingPairs(args.district_history, args.policy_intent)
       IN  /\ Len(ret.drifts) = Cardinality(pairs)
           /\ \A pr \in pairs :
                 LET d == ret.drifts[ConstraintMajorRank(pairs, pr)]
                 IN  /\ d.constraint = tc[pr[1]]
                     /\ d.month = args.district_history[pr[2]].month

\* two different temporal constraints and two records above both
\* thresholds: four findings, the two of the first record at places 1 and
\* 3, not next to each other
C29_Witness ==
    /\ op = "detect_temporal_drift"
    /\ ret.exc = "none"
    /\ Len(ret.drifts) = 4
    /\ ret.drifts[1].constraint # ret.drifts[3].constraint
    /\ ret.drifts[1].constraint = ret.drifts[2].constraint
    /\ ret.drifts[1].month = "2024-01"
    /\ ret.drifts[2].month = "2024-02"
    /\ ret.drifts[3].month = "2024-01"
    /\ ret.drifts[4].month = "2024-02"

(***************************************************************************)
(* The two engines.                                                        *)
(***************************************************************************)

\* every criterion of every group of the policy is a {min, max} range
RangeCriteria(policy_intent) ==
    \A g \in SeqRange(policy_intent.target_groups) :
       \A c \in SeqRange(g.criteria) : c.cond.tag = "dict"

\* the other engine
OtherImpl(impl) == IF impl = "cli" THEN "backend" ELSE "cli"

\* two outcomes are the same: the same failure, or lists of the same length
\* whose results are pairwise equal in the seven fields
SameOutcome(a, b) ==
    /\ a.exc = b.exc
    /\ Len(a.drifts) = Len(b.drifts)
    /\ \A k \in 1 .. Len(a.drifts) :
          /\ a.drifts[k].drift_type = b.drifts[k].drift_type
          /\ a.drifts[k].district_id = b.drifts[k].district_id
          /\ a.drifts[k].constraint = b.drifts[k].constraint
          /\ a.drifts[k].actual_value = b.drifts[k].actual_value
          /\ a.drifts[k].expected_threshold = b.drifts[k].expected_threshold
          /\ a.drifts[k].month = b.drifts[k].month
          /\ a.drifts[k].severity = b.drifts[k].severity

\* C30: for a policy whose criteria are {min, max} ranges and records that
\* carry district_id and district_name, the command-line engine and the
\* backend engine (with no database) give the same outcome: detect_all_drift
\* on a list of records, and detect_metric_drift, its step for one record,
\* on a record whose values may be numbers, text or missing.
C30_EnginesAgree ==
    /\ (op = "detect_all_drift" /\ RangeCriteria(args.policy_intent))
       => /\ SameOutcome(ret, detect_all_drift(OtherImpl(args.impl),
                                 args.implementation_data, args.policy_intent))
          /\ args.impl = "cli"
             => SameOutcome(ret, backend_detect_all_drift(
                                   args.implementation_data, args.policy_intent,
                                   "p1", "d1", NoDb))
    /\ (op = "detect_metric_drift" /\ RangeCriteria(args.policy_intent))
       => SameOutcome(ret, detect_metric_drift(OtherImpl(args.impl),
                              args.district_data, args.policy_intent, args.month))

\* the backend engine returns three findings for two regions, one of them
\* for a constraint that applies to the priority group only: the cohort of
\* the record decided it
C30_Witness ==
    /\ op = "detect_all_drift"
    /\ args.impl = "backend"
    /\ RangeCriteria(args.policy_intent)
    /\ ret.exc = "none"
    /\ Len(ret.drifts) = 3
    /\ \E k \in 1 .. 3 : ret.drifts[k].constraint.applies_to = "priority"
    /\ \E k \in 1 .. 3 : ret.drifts[k].district_id = "D2"
    /\ \E k \in 1 .. 3 : ret.drifts[k].drift_type = "temporal"

====
